---- MODULE Spec2Model ----
(***************************************************************************)
(* The perturbation-and-recovery transform engine of RADAR:                *)
(*   radar/data/perturb.py         TableDeltaSpec, apply_transform_spec    *)
(*   radar/data/transform_spec.py  generate_transform_spec_delete_overwrite*)
(* A DataFrame is a heap object [columns, index, data]; row positions and  *)
(* opcode indices are 0-based as in Python, TLA+ sequences are 1-based.    *)
(***************************************************************************)
EXTENDS Integers, Sequences, FiniteSets

VARIABLES heap, target, spec, ret, raised, pc, inst, build, calls

vars == <<heap, target, spec, ret, raised, pc, inst, build, calls>>

(***************************************************************************)
(* Bounds of the enumerated inputs.                                        *)
(***************************************************************************)
MaxRows == 2

MaxDrops == 2

MaxOverwrites == 1

(***************************************************************************)
(* Cell values.  NaN is the float missing value of pandas; None is the     *)
(* null new_value of an OverwriteCell.                                     *)
(***************************************************************************)
NaN == "<NaN>"

None == "<None>"

Headers == <<"c1", "c2">>

Min(x, y) == IF x < y THEN x ELSE y

Max(x, y) == IF x > y THEN x ELSE y

\* pd.isna on a cell or a parsed value
isna(v) == v \in {NaN, None}

\* Python's val1 != val2 on str / float-nan operands: nan differs from everything,
\* itself included
PyNotEqual(v1, v2) == isna(v1) \/ isna(v2) \/ v1 # v2

(***************************************************************************)
(* DataFrame primitives.                                                   *)
(***************************************************************************)
RangeIndex(n) == [p \in 1..n |-> p - 1]

DataFrame(rows, columns) ==
    [columns |-> columns, index |-> RangeIndex(Len(rows)), data |-> rows]

len(df) == Len(df.data)

ColPos(columns, col) == CHOOSE p \in 1..Len(columns) : columns[p] = col

HasCol(df, col) == \E p \in 1..Len(df.columns) : df.columns[p] = col

HasLabel(df, label) == \E p \in 1..Len(df.index) : df.index[p] = label

\* Python slice bounds: a negative bound counts from the end, both are clamped
SliceBound(k, n) == IF k < 0 THEN Max(n + k, 0) ELSE Min(k, n)

\* df.iloc[lo:hi] (positional, labels kept)
iloc_slice(df, lo, hi) ==
    LET n == len(df)
        l == SliceBound(lo, n)
        h == SliceBound(hi, n)
    IN  [columns |-> df.columns,
         index   |-> SubSeq(df.index, l + 1, h),
         data    |-> SubSeq(df.data, l + 1, h)]

\* pd.concat([x, y]) of two frames with the same columns
concat(x, y) ==
    [columns |-> x.columns, index |-> x.index \o y.index, data |-> x.data \o y.data]

\* .reset_index(drop=True)
reset_index(df) == [df EXCEPT !.index = RangeIndex(len(df))]

(***************************************************************************)
(* Canonical text rendering: df.to_csv(index=False).strip().splitlines().  *)
(* A line is the tuple of its comma-separated fields.                      *)
(***************************************************************************)
\* to_csv writes a missing value as the empty field, a string as itself
to_csv_field(v) == IF isna(v) THEN "" ELSE v

to_csv_line(row) == [p \in 1..Len(row) |-> to_csv_field(row[p])]

\* header line first, then one line per row
to_csv_lines(df) == <<df.columns>> \o [r \in 1..len(df) |-> to_csv_line(df.data[r])]

\* the default na_values of pd.read_csv that occur in the model
NaValues == {"", "nan"}

\* pd.read_csv(..., dtype=str): a field read back as a str or as NaN
read_csv_field(f) == IF f \in NaValues THEN NaN ELSE f

\* pd.read_csv(io.StringIO(header + "\n" + line), dtype=str).iloc[0], as col -> value
read_csv_row(columns, line) ==
    [c \in {columns[p] : p \in 1..Len(columns)} |->
        read_csv_field(line[ColPos(columns, c)])]

(***************************************************************************)
(* difflib.SequenceMatcher(None, a, b) on sequences shorter than 200       *)
(* elements (no junk, no popular elements).                                *)
(***************************************************************************)
\* a[i:i+k] == b[j:j+k]
BlockMatches(a, b, i, j, k) == \A d \in 0..(k - 1) : a[i + d + 1] = b[j + d + 1]

\* the longest matching block in a[alo:ahi], b[blo:bhi]; of the longest, the one
\* starting earliest in a, and of those the one starting earliest in b
find_longest_match(a, b, alo, ahi, blo, bhi) ==
    LET cand == {m \in [i : alo..(ahi - 1), j : blo..(bhi - 1), size : 1..Min(ahi - alo, bhi - blo)] :
                    /\ m.i + m.size <= ahi
                    /\ m.j + m.size <= bhi
                    /\ BlockMatches(a, b, m.i, m.j, m.size)}
    IN  IF cand = {} THEN [i |-> alo, j |-> blo, size |-> 0]
        ELSE CHOOSE m \in cand :
                \A o \in cand :
                    \/ m.size > o.size
                    \/ m.size = o.size /\ m.i < o.i
                    \/ m.size = o.size /\ m.i = o.i /\ m.j <= o.j

RECURSIVE matching_blocks_in(_, _, _, _, _, _)
\* the recursion of get_matching_blocks, in sorted order
matching_blocks_in(a, b, alo, ahi, blo, bhi) ==
    LET m == find_longest_match(a, b, alo, ahi, blo, bhi)
    IN  IF m.size = 0 THEN <<>>
        ELSE (IF alo < m.i /\ blo < m.j
                 THEN matching_blocks_in(a, b, alo, m.i, blo, m.j) ELSE <<>>)
             \o <<m>>
             \o (IF m.i + m.size < ahi /\ m.j + m.size < bhi
                 THEN matching_blocks_in(a, b, m.i + m.size, ahi, m.j + m.size, bhi)
                 ELSE <<>>)

RECURSIVE collapse_adjacent(_, _)
\* adjacent equal blocks merged into one; cur is the block being grown
collapse_adjacent(blocks, cur) ==
    IF blocks = <<>> THEN (IF cur.size > 0 THEN <<cur>> ELSE <<>>)
    ELSE LET nxt == Head(blocks)
         IN  IF cur.i + cur.size = nxt.i /\ cur.j + cur.size = nxt.j
             THEN collapse_adjacent(Tail(blocks), [cur EXCEPT !.size = cur.size + nxt.size])
             ELSE (IF cur.size > 0 THEN <<cur>> ELSE <<>>)
                  \o collapse_adjacent(Tail(blocks), nxt)

\* SequenceMatcher.get_matching_blocks(), the (len(a), len(b), 0) sentinel last
get_matching_blocks(a, b) ==
    collapse_adjacent(matching_blocks_in(a, b, 0, Len(a), 0, Len(b)),
                      [i |-> 0, j |-> 0, size |-> 0])
    \o <<[i |-> Len(a), j |-> Len(b), size |-> 0]>>

RECURSIVE opcodes_from(_, _, _)
opcodes_from(blocks, i, j) ==
    IF blocks = <<>> THEN <<>>
    ELSE LET m   == Head(blocks)
             tag == IF i < m.i /\ j < m.j THEN "replace"
                    ELSE IF i < m.i THEN "delete"
                    ELSE IF j < m.j THEN "insert"
                    ELSE ""
         IN  (IF tag # ""
              THEN <<[tag |-> tag, i1 |-> i, i2 |-> m.i, j1 |-> j, j2 |-> m.j]>>
              ELSE <<>>)
             \o (IF m.size > 0
                 THEN <<[tag |-> "equal", i1 |-> m.i, i2 |-> m.i + m.size,
                         j1 |-> m.j, j2 |-> m.j + m.size]>>
                 ELSE <<>>)
             \o opcodes_from(Tail(blocks), m.i + m.size, m.j + m.size)

\* SequenceMatcher.get_opcodes()
get_opcodes(a, b) == opcodes_from(get_matching_blocks(a, b), 0, 0)

(***************************************************************************)
(* radar/data/perturb.py                                                   *)
(***************************************************************************)
\* TableDeltaSpec(**kwargs): a pydantic BaseModel; a field that is not passed
\* takes its default [], a keyword that names no field is ignored
TableDeltaSpec(kwargs) ==
    [drop_rows       |-> IF "drop_rows" \in DOMAIN kwargs THEN kwargs.drop_rows ELSE <<>>,
     overwrite_cells |-> IF "overwrite_cells" \in DOMAIN kwargs
                         THEN kwargs.overwrite_cells ELSE <<>>]

OverwriteCell(row, col, new_value) == [row |-> row, col |-> col, new_value |-> new_value]

(***************************************************************************)
(* radar/data/transform_spec.py                                            *)
(***************************************************************************)
\* the comparison without the skip of line 58
both_missing_unchecked(val1, val2) == FALSE

\* line 58: both values missing, whatever their text was
both_missing(val1, val2) == isna(val1) /\ isna(val2)

RECURSIVE compare_columns(_, _, _, _, _)
\* lines 55-67: the OverwriteCells of source row i, columns from position p on
compare_columns(columns, p, i, row1, row2) ==
    IF p > Len(columns) THEN <<>>
    ELSE LET col  == columns[p]
             val1 == row1[col]
             val2 == row2[col]
         IN  (IF both_missing(val1, val2) THEN <<>>
              ELSE IF PyNotEqual(val1, val2)
                   THEN <<OverwriteCell(i, col, IF isna(val2) THEN None ELSE val2)>>
                   ELSE <<>>)
             \o compare_columns(columns, p + 1, i, row1, row2)

RECURSIVE replace_overwrites(_, _, _, _, _)
\* lines 49-67: the paired rows of a replace block, from offset on
replace_overwrites(lines1, lines2, columns, op, offset) ==
    IF offset >= Min(op.i2 - op.i1, op.j2 - op.j1) THEN <<>>
    ELSE LET i     == op.i1 + offset
             line1 == lines1[i + 1 + 1]
             line2 == lines2[op.j1 + offset + 1 + 1]
             row1  == read_csv_row(columns, line1)
             row2  == read_csv_row(columns, line2)
         IN  compare_columns(columns, 1, i, row1, row2)
             \o replace_overwrites(lines1, lines2, columns, op, offset + 1)

\* range(lo, hi) as a list
range(lo, hi) == [p \in 1..Max(hi - lo, 0) |-> lo + p - 1]

\* every source row of a replace block deleted, the paired ones included
opcode_delete_rows_whole_block(op) ==
    IF op.tag \in {"delete", "replace"} THEN range(op.i1, op.i2) ELSE <<>>

\* lines 43-46 and 68-71: the rows one opcode appends to delete_rows
opcode_delete_rows(op) ==
    IF op.tag = "delete" THEN range(op.i1, op.i2)
    ELSE IF op.tag = "replace" /\ op.i2 - op.i1 > op.j2 - op.j1
         THEN range(op.i1 + (op.j2 - op.j1), op.i2)
         ELSE <<>>

\* lines 47-67: the cells one opcode appends to overwrite_cells
opcode_overwrite_cells(lines1, lines2, columns, op) ==
    IF op.tag = "replace" THEN replace_overwrites(lines1, lines2, columns, op, 0)
    ELSE <<>>

RECURSIVE collect_delete_rows(_)
collect_delete_rows(ops) ==
    IF ops = <<>> THEN <<>>
    ELSE opcode_delete_rows(Head(ops)) \o collect_delete_rows(Tail(ops))

RECURSIVE collect_overwrite_cells(_, _, _, _)
collect_overwrite_cells(lines1, lines2, columns, ops) ==
    IF ops = <<>> THEN <<>>
    ELSE opcode_overwrite_cells(lines1, lines2, columns, Head(ops))
         \o collect_overwrite_cells(lines1, lines2, columns, Tail(ops))

\* line 36: the opcodes of the body lines of the two tables
table_opcodes(df, df_recovered) ==
    get_opcodes(Tail(to_csv_lines(df)), Tail(to_csv_lines(df_recovered)))

\* the local list delete_rows when the loop of lines 40-71 ends
delete_rows_of(df, df_recovered) == collect_delete_rows(table_opcodes(df, df_recovered))

\* the local list overwrite_cells when the loop of lines 40-71 ends
overwrite_cells_of(df, df_recovered) ==
    LET df_str_lines           == to_csv_lines(df)
        df_recovered_str_lines == to_csv_lines(df_recovered)
        header                 == df_str_lines[1]
    IN  collect_overwrite_cells(df_str_lines, df_recovered_str_lines, header,
                                table_opcodes(df, df_recovered))

\* lines 73-75: the lists are passed under the keywords delete_rows and
\* overwrite_cells
generate_transform_spec_delete_overwrite(df, df_recovered) ==
    TableDeltaSpec([delete_rows     |-> delete_rows_of(df, df_recovered),
                    overwrite_cells |-> overwrite_cells_of(df, df_recovered)])

(***************************************************************************)
(* apply_transform_spec (radar/data/perturb.py, lines 18-53) on the heap.  *)
(***************************************************************************)
\* df.astype(str): every missing value becomes the text nan
astype_str(df) ==
    [df EXCEPT !.data = [r \in 1..len(df) |->
        [p \in 1..Len(df.data[r]) |-> IF isna(df.data[r][p]) THEN "nan" ELSE df.data[r][p]]]]

\* the copy taken as df.astype(str)
copy_astype_str(h, r) == [heap |-> Append(h, astype_str(h[r])), ref |-> Len(h) + 1]

\* no copy: df_recovered = df
copy_alias(h, r) == [heap |-> h, ref |-> r]

\* df.copy(deep=True): a new frame object with the same contents
copy_deep(h, r) == [heap |-> Append(h, h[r]), ref |-> Len(h) + 1]

\* a null new_value is stored as the missing-value marker
to_cell(new_value) == IF new_value = None THEN NaN ELSE new_value

\* df.loc[label, col] = value.  .loc is label based and enlarges the frame: a
\* column that does not exist is added (missing in the other rows), and so is a
\* row label that does not exist.  It does not raise.
loc_setitem(df, label, col, value) ==
    LET withCol == IF HasCol(df, col) THEN df
                   ELSE [df EXCEPT !.columns = Append(@, col),
                                   !.data = [r \in 1..len(df) |-> Append(df.data[r], NaN)]]
        withRow == IF HasLabel(withCol, label) THEN withCol
                   ELSE [withCol EXCEPT
                            !.index = Append(@, label),
                            !.data = Append(@, [p \in 1..Len(withCol.columns) |-> NaN])]
        cp      == ColPos(withRow.columns, col)
    IN  [withRow EXCEPT !.data =
            [r \in 1..len(withRow) |->
                IF withRow.index[r] = label
                THEN [withRow.data[r] EXCEPT ![cp] = to_cell(value)]
                ELSE withRow.data[r]]]

\* the overwrite without the row guard of line 35
overwrite_unguarded(row, n) == TRUE

\* line 35: the row guard of an overwrite
overwrite_in_range(row, n) == row < n

RECURSIVE apply_overwrites(_, _, _)
\* lines 34-38: the overwrites, in place on the frame at r
apply_overwrites(h, r, cells) ==
    IF cells = <<>> THEN h
    ELSE LET op == Head(cells)
         IN  apply_overwrites(
                 IF overwrite_in_range(op.row, len(h[r]))
                 THEN [h EXCEPT ![r] = loc_setitem(@, op.row, op.col, op.new_value)]
                 ELSE h,
                 r, Tail(cells))

\* the position of a largest element of a non-empty list
ArgMax(seq) == CHOOSE p \in 1..Len(seq) : \A q \in 1..Len(seq) : seq[q] <= seq[p]

RemoveAt(seq, p) == SubSeq(seq, 1, p - 1) \o SubSeq(seq, p + 1, Len(seq))

\* the deletions taken in the order of the list
unsorted(seq) == seq

RECURSIVE sorted_reverse(_)
\* line 41: sorted(spec.drop_rows, reverse=True), a new list
sorted_reverse(seq) ==
    IF seq = <<>> THEN <<>>
    ELSE <<seq[ArgMax(seq)]>> \o sorted_reverse(RemoveAt(seq, ArgMax(seq)))

\* the second slice taken from delete_op instead of delete_op + 1
drop_row_off_by_one(df, delete_op) ==
    reset_index(concat(iloc_slice(df, 0, delete_op),
                       iloc_slice(df, delete_op, len(df))))

\* lines 46-51: the frame without the row at position delete_op, reindexed from 0
drop_row(df, delete_op) ==
    reset_index(concat(iloc_slice(df, 0, delete_op),
                       iloc_slice(df, delete_op + 1, len(df))))

RECURSIVE apply_deletes(_, _, _)
\* lines 44-51: every deletion binds df_recovered to a new frame
apply_deletes(h, r, delete_rows) ==
    IF delete_rows = <<>> THEN [heap |-> h, ref |-> r]
    ELSE LET delete_op == Head(delete_rows)
         IN  IF delete_op < len(h[r])
             THEN apply_deletes(Append(h, drop_row(h[r], delete_op)), Len(h) + 1,
                                Tail(delete_rows))
             ELSE apply_deletes(h, r, Tail(delete_rows))

\* apply_transform_spec(df, spec) with df the frame at dfRef: the heap, the
\* returned reference, the spec object after the call, and whether it raised
apply_transform_spec(h, dfRef, sp) ==
    LET c    == copy_deep(h, dfRef)
        h1   == apply_overwrites(c.heap, c.ref, sp.overwrite_cells)
        done == apply_deletes(h1, c.ref, sorted_reverse(sp.drop_rows))
    IN  [heap |-> done.heap, ret |-> done.ref, spec |-> sp, raised |-> FALSE]

\* the table apply_transform_spec returns for a frame and a spec
applied(df, sp) ==
    LET r == apply_transform_spec(<<df>>, 1, sp) IN r.heap[r.ret]

(***************************************************************************)
(* Inputs.                                                                 *)
(***************************************************************************)
RowValues == {<<x, y>> : x \in {"a", "b"}, y \in {"1", "nan", NaN}}

SeqsUpTo(S, n) == UNION {[1..k -> S] : k \in 0..n}

\* every table of at most MaxRows rows over RowValues
Tables == {DataFrame(rows, Headers) : rows \in SeqsUpTo(RowValues, MaxRows)}

\* the scenario of spec.md, section 8
ScenarioS == DataFrame(<<<<"a", "1">>, <<"b", "2">>, <<"c", "3">>>>, Headers)

ScenarioT == DataFrame(<<<<"a", "1">>, <<"c", "9">>>>, Headers)

\* a table of n pairwise different rows
SampleRow(k) == <<IF k % 2 = 1 THEN "a" ELSE "b",
                  IF k % 3 = 1 THEN "1" ELSE IF k % 3 = 2 THEN "nan" ELSE NaN>>

SampleTable(n) == DataFrame([k \in 1..n |-> SampleRow(k)], Headers)

\* row indices a spec may name: in range, at and past the end, and negative
DropIndices == (-1)..MaxRows

Cells == {OverwriteCell(row, col, v) :
            row \in 0..MaxRows, col \in {"c2", "zz"}, v \in {"9", None}}

Specs == {[drop_rows |-> d, overwrite_cells |-> o] :
            d \in SeqsUpTo(DropIndices, MaxDrops), o \in SeqsUpTo(Cells, MaxOverwrites)}

EmptySpec == TableDeltaSpec(<<>>)

(***************************************************************************)
(* The state machine: a caller holds the frame heap[1] and either infers a *)
(* spec against target and replays it, or applies a given spec.            *)
(***************************************************************************)
InitInfer ==
    /\ \E S \in Tables, T \in Tables : heap = <<S>> /\ target = T
    /\ spec = EmptySpec
    /\ pc = "infer"

InitScenario ==
    /\ heap = <<ScenarioS>>
    /\ target = ScenarioT
    /\ spec = EmptySpec
    /\ pc = "infer"

InitApply ==
    /\ \E n \in 0..MaxRows : heap = <<SampleTable(n)>> /\ target = SampleTable(n)
    /\ spec \in Specs
    /\ pc = "apply"

\* no TaskInstance under construction, no build and no concurrent calls
NoInstance == [table |-> <<>>]

NoBuild == [instances |-> <<>>]

NoCalls == <<>>

Init ==
    /\ (InitInfer \/ InitScenario \/ InitApply)
    /\ ret = 0
    /\ raised = FALSE
    /\ inst = NoInstance
    /\ build = NoBuild
    /\ calls = NoCalls

\* create_perturbation_return (radar/tasks/utils.py, lines 52-57): the spec
\* of the pair (perturbed, recovered)
Generate ==
    /\ pc = "infer"
    /\ spec' = generate_transform_spec_delete_overwrite(heap[1], target)
    /\ pc' = "generated"
    /\ UNCHANGED <<heap, target, ret, raised, inst, build, calls>>

\* the call apply_transform_spec(heap[1], spec)
Call(next) ==
    LET r == apply_transform_spec(heap, 1, spec)
    IN  /\ heap' = r.heap
        /\ ret' = r.ret
        /\ spec' = r.spec
        /\ raised' = r.raised
        /\ pc' = next
        /\ UNCHANGED <<target, inst, build, calls>>

\* TaskInstance.model_post_init (radar/data/datamodel.py, line 73): the stored
\* spec replayed against the stored table
Replay == pc = "generated" /\ Call("replayed")

\* apply_transform_spec on a table and a spec of the caller
Apply == pc = "apply" /\ Call("applied")

Next == Generate \/ Replay \/ Apply

Spec == Init /\ [][Next]_vars

(***************************************************************************)
(* Vocabulary of the properties.                                           *)
(***************************************************************************)
Range(seq) == {seq[p] : p \in 1..Len(seq)}

Returned == pc \in {"replayed", "applied"}

\* the value is missing under its text rendering
Missing(v) == read_csv_field(to_csv_field(v)) = NaN

SameCell(u, v) == u = v \/ (Missing(u) /\ Missing(v))

\* equal cell for cell, two missing cells being equal whatever their rendering
SameTable(x, y) ==
    /\ x.columns = y.columns
    /\ len(x) = len(y)
    /\ \A r \in 1..len(x) : \A p \in 1..Len(x.columns) :
          SameCell(x.data[r][p], y.data[r][p])

NoOperations == [drop_rows |-> <<>>, overwrite_cells |-> <<>>]

RECURSIVE IsSubsequence(_, _)
\* t is s with some elements deleted
IsSubsequence(t, s) ==
    IF t = <<>> THEN TRUE
    ELSE IF s = <<>> THEN FALSE
    ELSE IF Head(t) = Head(s) /\ IsSubsequence(Tail(t), Tail(s)) THEN TRUE
    ELSE IsSubsequence(t, Tail(s))

\* C1: round-trip law: for every target with no more rows than the source (every
\* such target is reached by deleting rows and overwriting cells), replaying the
\* inferred spec on the source gives the target cell for cell, row for row.
C1_RoundTripLaw ==
    (pc = "replayed" /\ len(target) <= len(heap[1])) => SameTable(heap[ret], target)

\* C2: identity: the spec inferred for a table against itself has no operations,
\* and applying a spec without operations returns a table equal to the source.
C2_Identity ==
    /\ (pc = "generated" /\ target = heap[1]) => spec = NoOperations
    /\ (Returned /\ spec = NoOperations) => heap[ret] = heap[1]

C2_Witness ==
    /\ pc = "replayed"
    /\ target = heap[1]
    /\ len(heap[1]) >= 2
    /\ \E r \in 1..len(heap[1]) : heap[1].data[r][2] = NaN
    /\ spec = NoOperations
    /\ ret # 1
    /\ heap[ret] = heap[1]

\* C3: every source row of a delete block of the alignment is in drop_rows of
\* the returned spec; for a target that is the source with rows deleted only,
\* drop_rows has len(S) - len(T) entries and there is no overwrite cell.
C3_DeletedRowsRecorded ==
    pc = "generated" =>
        /\ \A op \in Range(table_opcodes(heap[1], target)) :
              op.tag = "delete" =>
                  \A i \in op.i1..(op.i2 - 1) : i \in Range(spec.drop_rows)
        /\ IsSubsequence(target.data, heap[1].data) =>
              /\ Len(spec.drop_rows) = len(heap[1]) - len(target)
              /\ spec.overwrite_cells = <<>>

\* C4: the scenario of the specification: S = [[a,1],[b,2],[c,3]] and
\* T = [[a,1],[c,9]] give drop_rows = [1] and the single overwrite of row 2,
\* second column, by "9"; replaying that spec on S reproduces T.
C4_Scenario ==
    (heap[1] = ScenarioS /\ target = ScenarioT) =>
        /\ pc = "generated" =>
              spec = [drop_rows |-> <<1>>,
                      overwrite_cells |-> <<OverwriteCell(2, "c2", "9")>>]
        /\ pc = "replayed" => heap[ret] = ScenarioT

\* the pairs (source row, target row) that the replace blocks compare
AlignedPairs ==
    UNION {{<<op.i1 + k, op.j1 + k>> : k \in 0..(Min(op.i2 - op.i1, op.j2 - op.j1) - 1)} :
              op \in {o \in Range(table_opcodes(heap[1], target)) : o.tag = "replace"}}

\* C5: missing-value equivalence: a column that is missing in both rows of an
\* aligned pair, under whatever rendering, gets no OverwriteCell, also when
\* another column of the pair differs.
C5_MissingValueEquivalence ==
    pc = "generated" =>
        \A pr \in AlignedPairs : \A p \in 1..Len(Headers) :
            (Missing(heap[1].data[pr[1] + 1][p]) /\ Missing(target.data[pr[2] + 1][p]))
                => ~\E cell \in Range(spec.overwrite_cells) :
                        cell.row = pr[1] /\ cell.col = Headers[p]

C5_Witness ==
    /\ pc = "generated"
    /\ \E pr \in AlignedPairs :
          /\ heap[1].data[pr[1] + 1][2] = "nan"
          /\ target.data[pr[2] + 1][2] = NaN
          /\ heap[1].data[pr[1] + 1][1] # target.data[pr[2] + 1][1]
          /\ \E cell \in Range(spec.overwrite_cells) : cell.row = pr[1] /\ cell.col = "c1"
          /\ ~\E cell \in Range(spec.overwrite_cells) : cell.row = pr[1] /\ cell.col = "c2"

\* the spec without the operations whose row index is at or past n
InRangeSpec(sp, n) ==
    LET DropOk(d) == d < n
        CellOk(c) == c.row < n
    IN  [drop_rows       |-> SelectSeq(sp.drop_rows, DropOk),
         overwrite_cells |-> SelectSeq(sp.overwrite_cells, CellOk)]

\* C6: tolerant replay: with row indices at or past the end of the table among
\* the operations, the call does not raise and returns what the spec without
\* those operations returns.
C6_TolerantReplay ==
    Returned =>
        /\ ~raised
        /\ heap[ret] = applied(heap[1], InRangeSpec(spec, len(heap[1])))

C6_Witness ==
    /\ pc = "applied"
    /\ len(heap[1]) >= 1
    /\ \E p \in 1..Len(spec.drop_rows) : spec.drop_rows[p] >= len(heap[1])
    /\ \E p \in 1..Len(spec.drop_rows) :
          spec.drop_rows[p] >= 0 /\ spec.drop_rows[p] < len(heap[1])
    /\ \E p \in 1..Len(spec.overwrite_cells) : spec.overwrite_cells[p].row >= len(heap[1])
    /\ ~raised
    /\ len(heap[ret]) = len(heap[1]) - 1

\* the overwrite cells with a row of the table and a column the table lacks
BadColumnCells(df, sp) ==
    {c \in Range(sp.overwrite_cells) : c.row < len(df) /\ ~HasCol(df, c.col)}

\* C7: invalid column is a hard error: an in-range overwrite of a column that
\* is not a header makes the call raise, and no returned table has other headers
\* than the source.
C7_InvalidColumnRaises ==
    Returned =>
        /\ BadColumnCells(heap[1], spec) # {} => raised
        /\ ~raised => heap[ret].columns = heap[1].columns

\* What lines 33-38 do with such a cell: the call never raises; the returned
\* table has the column added after the source's headers, holding in every row
\* the missing marker or a new_value written to that column; without such a
\* cell the headers are those of the source.
InvalidColumnAdded ==
    Returned =>
        /\ ~raised
        /\ SubSeq(heap[ret].columns, 1, Len(heap[1].columns)) = heap[1].columns
        /\ \A c \in BadColumnCells(heap[1], spec) :
              /\ HasCol(heap[ret], c.col)
              /\ \A r \in 1..len(heap[ret]) :
                    LET v == heap[ret].data[r][ColPos(heap[ret].columns, c.col)]
                    IN  \/ v = NaN
                        \/ \E o \in Range(spec.overwrite_cells) :
                              o.col = c.col /\ v = to_cell(o.new_value)
        /\ BadColumnCells(heap[1], spec) = {} => heap[ret].columns = heap[1].columns

InvalidColumnAddedReached ==
    /\ pc = "applied"
    /\ BadColumnCells(heap[1], spec) # {}
    /\ ~raised
    /\ heap[ret].columns = <<"c1", "c2", "zz">>
    /\ \E r \in 1..len(heap[ret]) : heap[ret].data[r][3] = "9"
    /\ \E r \in 1..len(heap[ret]) : heap[ret].data[r][3] = NaN

\* the rearrangements of a list
Rearrangements(seq) ==
    {[p \in 1..Len(seq) |-> seq[f[p]]] :
        f \in {g \in [1..Len(seq) -> 1..Len(seq)] : \A x, y \in 1..Len(seq) : g[x] = g[y] => x = y}}

\* C8: delete-order independence: specs that differ only in the order of
\* drop_rows return equal tables.
C8_DeleteOrderIndependence ==
    Returned =>
        \A d \in Rearrangements(spec.drop_rows) :
            applied(heap[1], [spec EXCEPT !.drop_rows = d]) = heap[ret]

C8_Witness ==
    /\ pc = "applied"
    /\ len(heap[1]) = 2
    /\ spec.drop_rows = <<0, 1>>
    /\ len(heap[ret]) = 0

RECURSIVE RefOverwritten(_, _, _)
\* the rows of a table after S[row][col] = new_value for each cell in turn
RefOverwritten(rows, columns, cells) ==
    IF cells = <<>> THEN rows
    ELSE LET c == Head(cells)
         IN  RefOverwritten(
                 IF c.row < Len(rows)
                 THEN [rows EXCEPT ![c.row + 1][ColPos(columns, c.col)] = to_cell(c.new_value)]
                 ELSE rows,
                 columns, Tail(cells))

RECURSIVE RefKept(_, _, _)
\* the rows whose original index k, k + 1, ... is not in drops, in order
RefKept(rows, k, drops) ==
    IF rows = <<>> THEN <<>>
    ELSE (IF k \in drops THEN <<>> ELSE <<Head(rows)>>) \o RefKept(Tail(rows), k + 1, drops)

\* overwrite first, then keep the rows that are not dropped, renumbered from 0
Reference(df, sp) ==
    DataFrame(RefKept(RefOverwritten(df.data, df.columns, sp.overwrite_cells), 0,
                      Range(sp.drop_rows)),
              df.columns)

\* drop_rows in range, non-negative and distinct; overwrite columns are headers
ReferencePre(df, sp) ==
    /\ \A p \in 1..Len(sp.drop_rows) : sp.drop_rows[p] >= 0 /\ sp.drop_rows[p] < len(df)
    /\ Cardinality(Range(sp.drop_rows)) = Len(sp.drop_rows)
    /\ \A c \in Range(sp.overwrite_cells) : HasCol(df, c.col)

\* C9: applier reference semantics: with in-range, non-negative, distinct
\* drop_rows the returned table is the source with every overwrite written at
\* its original row index (null as the missing marker) and then exactly the rows
\* outside drop_rows kept, in order and renumbered from 0.
C9_ReferenceSemantics ==
    (Returned /\ ReferencePre(heap[1], spec)) => heap[ret] = Reference(heap[1], spec)

C9_Witness ==
    /\ pc = "applied"
    /\ ReferencePre(heap[1], spec)
    /\ len(heap[1]) = 2
    /\ spec.drop_rows = <<0>>
    /\ spec.overwrite_cells = <<OverwriteCell(1, "c2", None)>>
    /\ heap[ret].data = <<<<"b", NaN>>>>
    /\ heap[ret].index = <<0>>

\* C10: no aliasing: the call leaves the source frame and the spec as they
\* were and returns a frame that is not the source frame.
C10_NoAliasing ==
    [][(pc' \in {"replayed", "applied"}) =>
           (heap'[1] = heap[1] /\ spec' = spec /\ ret' # 1)]_vars

C10_Witness ==
    /\ pc = "applied"
    /\ len(heap[1]) = 2
    /\ \E c \in Range(spec.overwrite_cells) : c.row < len(heap[1])
    /\ \E d \in Range(spec.drop_rows) : d >= 0 /\ d < len(heap[1])
    /\ ret # 1
    /\ heap[ret] # heap[1]
    /\ heap[1] = SampleTable(2)

(***************************************************************************)
(* Further properties of the inferred and the applied spec.                *)
(***************************************************************************)
RECURSIVE Dedup(_)
\* the list with every index listed once, at its first position
Dedup(seq) ==
    IF seq = <<>> THEN <<>>
    ELSE LET rest == Dedup(SubSeq(seq, 1, Len(seq) - 1))
             last == seq[Len(seq)]
         IN  IF last \in Range(rest) THEN rest ELSE Append(rest, last)

\* the indices listed more than once
Repeated(seq) == {seq[p] : p \in {q \in 1..Len(seq) : \E o \in 1..Len(seq) : o # q /\ seq[o] = seq[q]}}

\* C11: drop_rows is a set: a spec that lists an in-range index more than once
\* returns the same table as the spec that lists it once.
C11_DropRowsIsASet ==
    (Returned /\ \A d \in Repeated(spec.drop_rows) : d >= 0 /\ d < len(heap[1])) =>
        heap[ret] = applied(heap[1], [spec EXCEPT !.drop_rows = Dedup(@)])

\* the alignment has rows that only the target has
HasInsertedRows(df, df_recovered) ==
    \E op \in Range(table_opcodes(df, df_recovered)) :
        \/ op.tag = "insert"
        \/ op.tag = "replace" /\ op.j2 - op.j1 > op.i2 - op.i1

\* C13: inserted rows are silently mis-encoded: for a target with rows the
\* source lacks the inferrer raises nothing, every operation of the returned
\* spec names a source row, and replaying it gives fewer rows than the target.
C13_InsertedRowsMisEncoded ==
    (pc = "replayed" /\ HasInsertedRows(heap[1], target)) =>
        /\ ~raised
        /\ \A d \in Range(spec.drop_rows) : d >= 0 /\ d < len(heap[1])
        /\ \A c \in Range(spec.overwrite_cells) : c.row >= 0 /\ c.row < len(heap[1])
        /\ len(heap[ret]) < len(target)

OpCount(sp) == Len(sp.drop_rows) + Len(sp.overwrite_cells)

\* the cells in which a source row and a target row differ
RowDistance(row1, row2) == Cardinality({p \in 1..Len(row1) : ~SameCell(row1[p], row2[p])})

RECURSIVE SumOver(_, _, _, _)
\* the overwrites needed when target row r, r + 1, ... is made from source row f[r]
SumOver(f, r, rows1, rows2) ==
    IF r > Len(rows2) THEN 0
    ELSE RowDistance(rows1[f[r]], rows2[r]) + SumOver(f, r + 1, rows1, rows2)

\* the fewest operations of a spec that makes the target from the source: the
\* rows that are not kept are dropped, the kept rows are overwritten where they
\* differ, over every order-preserving choice of the kept rows
MinOps(df, df_recovered) ==
    LET n     == len(df)
        m     == len(df_recovered)
        keeps == {f \in [1..m -> 1..n] : \A x, y \in 1..m : x < y => f[x] < f[y]}
        costs == {SumOver(f, 1, df.data, df_recovered.data) : f \in keeps}
    IN  (n - m) + (CHOOSE c \in costs : \A o \in costs : c <= o)

\* C14: minimality: for a target made from the source by row deletions and cell
\* overwrites, the returned spec reproduces the target with the fewest
\* operations any reproducing spec can have.
C14_Minimality ==
    (pc = "generated" /\ len(target) <= len(heap[1])) =>
        /\ SameTable(applied(heap[1], spec), target)
        /\ OpCount(spec) = MinOps(heap[1], target)

\* the parsed value of a column of a body line
ParsedAt(df, r, col) == read_csv_row(df.columns, to_csv_lines(df)[r + 2])[col]

\* C18: replace-block encoding: source row i1+k is paired with target row j1+k
\* for k < min(i2-i1, j2-j1), an OverwriteCell (row i1+k, col, target value or
\* null when it is missing) is emitted for exactly the columns whose values
\* differ, and every extra trailing source row is in drop_rows of the
\* returned spec.
C18_ReplaceBlockEncoding ==
    pc = "generated" =>
        \A op \in {o \in Range(table_opcodes(heap[1], target)) : o.tag = "replace"} :
            /\ \A k \in 0..(Min(op.i2 - op.i1, op.j2 - op.j1) - 1) :
                  \A p \in 1..Len(Headers) :
                      LET val1 == ParsedAt(heap[1], op.i1 + k, Headers[p])
                          val2 == ParsedAt(target, op.j1 + k, Headers[p])
                          cell == OverwriteCell(op.i1 + k, Headers[p],
                                                IF isna(val2) THEN None ELSE val2)
                      IN  /\ (val1 # val2) <=> (cell \in Range(spec.overwrite_cells))
                          /\ \A c \in Range(spec.overwrite_cells) :
                                (c.row = op.i1 + k /\ c.col = Headers[p]) => c = cell
            /\ \A i \in (op.i1 + (op.j2 - op.j1))..(op.i2 - 1) :
                  i \in Range(spec.drop_rows)

(***************************************************************************)
(* TaskInstance construction (radar/data/datamodel.py): the stored table   *)
(* and the stored specs, a list or the legacy dict of lists, are loaded    *)
(* and the recovered tables are materialized on the heap.                  *)
(***************************************************************************)
MaxSpecs == 2

\* DataTable.to_df
to_df(table) == DataFrame(table.rows, table.headers)

\* DataTable.from_df: the cells are stored as text
from_df(df) == [headers |-> df.columns, rows |-> astype_str(df).data]

\* a Python list and a Python dict as values of the union-typed field; a dict
\* keeps its keys in insertion order
List(items) == [type |-> "list", items |-> items]

Dict(keys, at) == [type |-> "dict", keys |-> keys, at |-> at]

\* the lists cut to the shortest one instead of the length check of lines 105-109
zip_lists(dict_of_lists) ==
    LET keys      == {dict_of_lists.keys[p] : p \in 1..Len(dict_of_lists.keys)}
        shortest  == CHOOSE n \in {Len(dict_of_lists.at[k]) : k \in keys} \cup {0} :
                        /\ \A k \in keys : n <= Len(dict_of_lists.at[k])
                        /\ keys # {} => \E k \in keys : n = Len(dict_of_lists.at[k])
    IN  [raised |-> FALSE,
         value  |-> [i \in 1..shortest |-> [k \in keys |-> dict_of_lists.at[k][i]]]]

\* radar/utils.py, lines 98-114: the list of dicts, or ValueError
convert_dict_of_lists_to_list_of_dicts(dict_of_lists) ==
    IF dict_of_lists.keys = <<>>
    THEN [raised |-> FALSE, value |-> <<>>]
    ELSE LET keys      == {dict_of_lists.keys[p] : p \in 1..Len(dict_of_lists.keys)}
             first_key == dict_of_lists.keys[1]
             num_items == Len(dict_of_lists.at[first_key])
         IN  IF \E k \in keys : Len(dict_of_lists.at[k]) # num_items
             THEN [raised |-> TRUE, value |-> <<>>]
             ELSE [raised |-> FALSE,
                   value  |-> [i \in 1..num_items |->
                                  [k \in keys |-> dict_of_lists.at[k][i]]]]

\* line 73 with the previous recovered table as the frame replayed against
previous_df(table_df, recovered_table_dfs) ==
    IF recovered_table_dfs = <<>> THEN table_df
    ELSE recovered_table_dfs[Len(recovered_table_dfs)]

\* the frame every spec is replayed against at line 73: self._table_df
replayed_df(table_df, recovered_table_dfs) == table_df

\* the loop of lines 71-74
RECURSIVE recovered_loop(_, _, _, _)
recovered_loop(h, table_df, specs, recovered_table_dfs) ==
    IF specs = <<>> THEN [heap |-> h, recovered_table_dfs |-> recovered_table_dfs]
    ELSE LET r == apply_transform_spec(h, replayed_df(table_df, recovered_table_dfs),
                                       Head(specs))
         IN  recovered_loop(r.heap, table_df, Tail(specs),
                            Append(recovered_table_dfs, r.ret))

\* TaskInstance.model_post_init (lines 61-75) on the object self
model_post_init(h, self) ==
    LET field == self.recovered_tables_transform_spec
        conv  == IF field.type = "dict"
                 THEN convert_dict_of_lists_to_list_of_dicts(field)
                 ELSE [raised |-> FALSE, value |-> field.items]
        specs == [i \in 1..Len(conv.value) |-> TableDeltaSpec(conv.value[i])]
        h1    == IF self._table_df = 0 THEN Append(h, to_df(self.table)) ELSE h
        tdf   == IF self._table_df = 0 THEN Len(h) + 1 ELSE self._table_df
        loop  == recovered_loop(h1, tdf, specs, <<>>)
    IN  IF conv.raised
        THEN [heap |-> h, self |-> self, raised |-> TRUE]
        ELSE [heap   |-> loop.heap,
              self   |-> [self EXCEPT !.recovered_tables_transform_spec = List(specs),
                                      !._table_df = tdf,
                                      !._recovered_table_dfs = loop.recovered_table_dfs],
              raised |-> FALSE]

\* the stored specs of the instances constructed
LoadDrops == {<<>>, <<0>>, <<1, 0>>}

LoadCells == {<<>>, <<OverwriteCell(0, "c2", "9")>>, <<OverwriteCell(1, "c1", None)>>}

LoadSpecs == {[drop_rows |-> d, overwrite_cells |-> o] : d \in LoadDrops, o \in LoadCells}

LoadDicts ==
    {Dict(<<>>, <<>>)}
    \cup {Dict(<<"drop_rows">>, [k \in {"drop_rows"} |-> d]) :
            d \in SeqsUpTo(LoadDrops, MaxSpecs)}
    \cup {Dict(<<"overwrite_cells">>, [k \in {"overwrite_cells"} |-> o]) :
            o \in SeqsUpTo(LoadCells, MaxSpecs)}
    \cup {Dict(keys, [drop_rows |-> d, overwrite_cells |-> o]) :
            keys \in {<<"drop_rows", "overwrite_cells">>, <<"overwrite_cells", "drop_rows">>},
            d \in SeqsUpTo(LoadDrops, MaxSpecs), o \in SeqsUpTo(LoadCells, MaxSpecs)}

LoadLists == {List(l) : l \in SeqsUpTo(LoadSpecs, MaxSpecs)}

\* TaskInstance(table=..., recovered_tables_transform_spec=...): the keyword
\* arguments of the constructor and the object before model_post_init
InitLoad ==
    /\ \E n \in 1..MaxRows, field \in LoadDicts \cup LoadLists :
          inst = [kwargs |-> [table |-> from_df(SampleTable(n)),
                              recovered_tables_transform_spec |-> field],
                  self   |-> [table |-> from_df(SampleTable(n)),
                              recovered_tables_transform_spec |-> field,
                              _table_df |-> 0,
                              _recovered_table_dfs |-> <<>>]]
    /\ heap = <<>>
    /\ raised = FALSE
    /\ pc = "construct"
    /\ target = DataFrame(<<>>, Headers)
    /\ spec = EmptySpec
    /\ ret = 0
    /\ build = NoBuild
    /\ calls = NoCalls

\* the construction of the TaskInstance: model_post_init runs, or raises
Load ==
    /\ pc = "construct"
    /\ LET r == model_post_init(heap, inst.self)
       IN  /\ heap' = r.heap
           /\ inst' = [inst EXCEPT !.self = r.self]
           /\ raised' = r.raised
           /\ pc' = IF r.raised THEN "raised" ELSE "loaded"
    /\ UNCHANGED <<target, spec, ret, build, calls>>

NextLoad == Load

SpecLoad == InitLoad /\ [][NextLoad]_vars

\* the lists of a legacy dict, [] for a key it does not have
LegacyList(field, key) ==
    IF key \in Range(field.keys) THEN field.at[key] ELSE <<>>

LegacyLengths(field) == {Len(field.at[k]) : k \in Range(field.keys)}

\* C15: a TaskInstance constructed from the legacy dict {drop_rows: [d_0..],
\* overwrite_cells: [o_0..]} holds a list of n TableDeltaSpecs, the i-th with
\* drop_rows = d_i and overwrite_cells = o_i; the empty dict gives the empty
\* list; lists of different lengths raise ValueError and no instance is made.
C15_LegacyNormalization ==
    (pc \in {"loaded", "raised"} /\ inst.kwargs.recovered_tables_transform_spec.type = "dict") =>
        LET given == inst.kwargs.recovered_tables_transform_spec
            field == inst.self.recovered_tables_transform_spec
        IN  IF Cardinality(LegacyLengths(given)) > 1
            THEN pc = "raised" /\ raised /\ inst.self._table_df = 0
            ELSE /\ pc = "loaded" /\ ~raised
                 /\ field.type = "list"
                 /\ \A n \in LegacyLengths(given) : Len(field.items) = n
                 /\ given.keys = <<>> => field.items = <<>>
                 /\ \A i \in 1..Len(field.items) :
                       /\ "drop_rows" \in Range(given.keys) =>
                             field.items[i].drop_rows = given.at["drop_rows"][i]
                       /\ "overwrite_cells" \in Range(given.keys) =>
                             field.items[i].overwrite_cells = given.at["overwrite_cells"][i]

C15_Witness ==
    /\ pc = "loaded"
    /\ inst.kwargs.recovered_tables_transform_spec =
          Dict(<<"drop_rows", "overwrite_cells">>,
               [drop_rows       |-> <<<<0>>, <<1, 0>>>>,
                overwrite_cells |-> <<<<OverwriteCell(0, "c2", "9")>>, <<>>>>])
    /\ inst.self.recovered_tables_transform_spec =
          List(<<[drop_rows |-> <<0>>, overwrite_cells |-> <<OverwriteCell(0, "c2", "9")>>],
                 [drop_rows |-> <<1, 0>>, overwrite_cells |-> <<>>]>>)

\* C16: after construction recovered_table_dfs has one table per stored spec,
\* the i-th being apply_transform_spec(stored table, spec_i): each spec is
\* replayed against the original stored table, which is left unchanged.
C16_RecoveredPerSpec ==
    pc = "loaded" =>
        LET specs == inst.self.recovered_tables_transform_spec.items
            dfs   == inst.self._recovered_table_dfs
        IN  /\ Len(dfs) = Len(specs)
            /\ heap[inst.self._table_df] = to_df(inst.kwargs.table)
            /\ inst.self.table = inst.kwargs.table
            /\ \A i \in 1..Len(specs) :
                  /\ dfs[i] # inst.self._table_df
                  /\ heap[dfs[i]] = applied(to_df(inst.kwargs.table), specs[i])

C16_Witness ==
    /\ pc = "loaded"
    /\ Len(inst.self._recovered_table_dfs) = 2
    /\ len(heap[inst.self._table_df]) = 2
    /\ \A i \in 1..2 : inst.self.recovered_tables_transform_spec.items[i].drop_rows = <<0>>
    /\ \A i \in 1..2 : len(heap[inst.self._recovered_table_dfs[i]]) = 1

(***************************************************************************)
(* create_perturbation_return (radar/tasks/utils.py): a perturbation       *)
(* function hands over its perturbed table and one recovered table or a    *)
(* list of them.  The tables of the model hold text and missing cells, on  *)
(* which round(4) changes nothing; astype(str) is what turns them to text. *)
(***************************************************************************)
MaxRecovered == 2

\* isinstance(df_recovered, list)
is_list(value) == "items" \in DOMAIN value

\* line 56 with the first recovered table taken for every spec
first_df(df_recovered, i) == df_recovered[1]

\* the table df of the i-th turn of the comprehension of lines 52-57
comprehension_df(df_recovered, i) == df_recovered[i]

\* lines 37-62
create_perturbation_return(df_perturbed, df_recovered, artifact_type, artifact_scope) ==
    LET perturbed == astype_str(df_perturbed)
        table     == [headers |-> perturbed.columns, rows |-> perturbed.data]
        recovered == IF is_list(df_recovered) THEN df_recovered.items
                     ELSE <<df_recovered>>
    IN  [table                 |-> table,
         recovered_tables      |-> recovered,
         recovered_delta_specs |->
             [i \in 1..Len(recovered) |->
                 generate_transform_spec_delete_overwrite(
                     perturbed, astype_str(comprehension_df(recovered, i)))],
         artifact_type         |-> artifact_type,
         artifact_scope        |-> artifact_scope]

\* the tables a perturbation function hands over
PerturbedTables == {SampleTable(n) : n \in 1..MaxRows}

RecoveredTables ==
    {DataFrame(rows, Headers) : rows \in SeqsUpTo({<<"a", "1">>, <<"b", NaN>>}, MaxRows)}

RecoveredArguments ==
    RecoveredTables \cup {List(l) : l \in SeqsUpTo(RecoveredTables, MaxRecovered)}

NoReturn == [recovered_delta_specs |-> <<>>]

InitPerturb ==
    /\ \E P \in PerturbedTables, R \in RecoveredArguments :
          build = [df_perturbed |-> P, df_recovered |-> R,
                   perturbation_return |-> NoReturn]
    /\ pc = "perturb"
    /\ heap = <<>>
    /\ target = DataFrame(<<>>, Headers)
    /\ spec = EmptySpec
    /\ ret = 0
    /\ raised = FALSE
    /\ inst = NoInstance
    /\ calls = NoCalls

\* a perturbation function's call of create_perturbation_return
CreatePerturbationReturn ==
    /\ pc = "perturb"
    /\ build' = [build EXCEPT !.perturbation_return =
                    create_perturbation_return(build.df_perturbed, build.df_recovered,
                                               "missingness", "single-column")]
    /\ pc' = "perturbed"
    /\ UNCHANGED <<heap, target, spec, ret, raised, inst, calls>>

NextPerturb == CreatePerturbationReturn

SpecPerturb == InitPerturb /\ [][NextPerturb]_vars

\* C12: create_perturbation_return given a list of k recovered tables returns
\* exactly k delta specs, the i-th being the spec inferred from the pair
\* (perturbed table, i-th recovered table) alone; given a single recovered
\* table, not a list, it returns exactly one spec, that of the pair.
C12_OneSpecPerTarget ==
    pc = "perturbed" =>
        LET P     == astype_str(build.df_perturbed)
            specs == build.perturbation_return.recovered_delta_specs
        IN  IF is_list(build.df_recovered)
            THEN /\ Len(specs) = Len(build.df_recovered.items)
                 /\ \A i \in 1..Len(specs) :
                       specs[i] = generate_transform_spec_delete_overwrite(
                                      P, astype_str(build.df_recovered.items[i]))
            ELSE specs = <<generate_transform_spec_delete_overwrite(
                               P, astype_str(build.df_recovered))>>

C12_Witness ==
    /\ pc = "perturbed"
    /\ is_list(build.df_recovered)
    /\ Len(build.perturbation_return.recovered_delta_specs) = 2
    /\ build.perturbation_return.recovered_delta_specs[1] = NoOperations
    /\ build.perturbation_return.recovered_delta_specs[2] # NoOperations

(***************************************************************************)
(* add_perturbations_from_df (radar/build/add_perturbations.py): the clean *)
(* instance and one instance per registered perturbation function of one   *)
(* sized variant df.  The registries of radar/tasks/registry.py map a task *)
(* id to a function; the functions are stand-ins named by a string.        *)
(***************************************************************************)
task_id == "influenza-like-illness"

\* the answer functions: a number, or a list of values
AnswerFuncs == {"num_rows", "first_column"}

\* answer_func(df)
call_answer(answer_func, df) ==
    IF answer_func = "num_rows" THEN len(df)
    ELSE [r \in 1..len(df) |-> df.data[r][1]]

\* isinstance(answer[0], list) for the answers of answer_func
answers_are_lists(answer_func) == answer_func = "first_column"

RECURSIVE flatten(_)
flatten(lists) == IF lists = <<>> THEN <<>> ELSE Head(lists) \o flatten(Tail(lists))

\* the perturbation functions: one cell made missing, a row added, and a
\* changed cell with two recoveries (the changed row dropped, or restored)
PerturbFuncs == {"missing_cell", "added_row", "two_recoveries"}

\* perturb_func(df), a function registered for artifact_type
call_perturbation(perturb_func, df, artifact_type) ==
    IF perturb_func = "missing_cell"
    THEN create_perturbation_return([df EXCEPT !.data[1][2] = NaN], df,
                                    artifact_type, "single-column")
    ELSE IF perturb_func = "added_row"
    THEN create_perturbation_return(DataFrame(Append(df.data, <<"b", "7">>), df.columns), df,
                                    artifact_type, "single-column")
    ELSE create_perturbation_return(
             [df EXCEPT !.data[1][2] = "7"],
             List(<<DataFrame(Tail(df.data), df.columns), df>>),
             artifact_type, "connected-multi-column")

\* a default answer function where the registry has none
get_answer_func_default(registry, name) ==
    IF name \in DOMAIN registry.ANSWER_FUNCTION_REGISTRY
    THEN registry.ANSWER_FUNCTION_REGISTRY[name] ELSE "num_rows"

\* TaskMetadata.get_answer_func: the registered function, or None on KeyError
get_answer_func(registry, name) ==
    IF name \in DOMAIN registry.ANSWER_FUNCTION_REGISTRY
    THEN registry.ANSWER_FUNCTION_REGISTRY[name] ELSE None

\* the registry get_perturbation_func looks the artifact type up in
registry_of(artifact_type) ==
    IF artifact_type = "missingness" THEN "MISSING_DATA_FUNCTION_REGISTRY"
    ELSE IF artifact_type = "bad-values" THEN "BAD_VALUES_FUNCTION_REGISTRY"
    ELSE IF artifact_type = "inconsistent-formatting"
    THEN "INCONSISTENT_FORMATTING_FUNCTION_REGISTRY"
    ELSE IF artifact_type = "inconsistent-commonsense-logic"
    THEN "INCONSISTENT_LOGIC_FUNCTION_REGISTRY"
    ELSE IF artifact_type = "outliers" THEN "OUTLIER_FUNCTION_REGISTRY"
    ELSE None

\* TaskMetadata.get_perturbation_func: the registered function, or None
get_perturbation_func(registry, name, artifact_type) ==
    IF registry_of(artifact_type) = None THEN None
    ELSE IF name \in DOMAIN registry[registry_of(artifact_type)]
    THEN registry[registry_of(artifact_type)][name] ELSE None

\* the artifact types in alphabetical order
perturb_types_sorted ==
    <<"bad-values", "inconsistent-commonsense-logic", "inconsistent-formatting",
      "missingness", "outliers">>

\* the list the loop of lines 56-62 runs over
perturb_types ==
    <<"missingness", "bad-values", "inconsistent-formatting",
      "inconsistent-commonsense-logic", "outliers">>

\* spec.model_dump()
model_dump(sp) ==
    [drop_rows       |-> sp.drop_rows,
     overwrite_cells |-> [i \in 1..Len(sp.overwrite_cells) |->
                            [row       |-> sp.overwrite_cells[i].row,
                             col       |-> sp.overwrite_cells[i].col,
                             new_value |-> sp.overwrite_cells[i].new_value]]]

\* TaskInstance(**kwargs): the object, its private attributes unset, after
\* model_post_init
TaskInstance(h, kwargs) ==
    model_post_init(h, [artifact_type  |-> kwargs.artifact_type,
                        artifact_scope |-> kwargs.artifact_scope,
                        table          |-> kwargs.table,
                        num_rows       |-> kwargs.num_rows,
                        num_cols       |-> kwargs.num_cols,
                        recovered_tables_transform_spec |->
                            kwargs.recovered_tables_transform_spec,
                        answer         |-> kwargs.answer,
                        _table_df      |-> 0,
                        _recovered_table_dfs |-> <<>>])

\* lines 38-52: the clean instance
clean_instance(h, df, sp, answer_func) ==
    TaskInstance(h, [artifact_type  |-> "clean",
                     artifact_scope |-> "clean",
                     table          |-> from_df(df),
                     num_rows       |-> len(df),
                     num_cols       |-> Len(df.columns),
                     recovered_tables_transform_spec |->
                         List(<<TableDeltaSpec(model_dump(sp))>>),
                     answer         |-> call_answer(answer_func, df)])

\* lines 67-72: the answer of a perturbed instance
perturbed_answer(answer_func, recovered_tables) ==
    IF Len(recovered_tables) = 1 THEN call_answer(answer_func, recovered_tables[1])
    ELSE LET answer == [i \in 1..Len(recovered_tables) |->
                           call_answer(answer_func, recovered_tables[i])]
         IN  IF answers_are_lists(answer_func) THEN flatten(answer) ELSE answer

\* lines 73-88: the instance of a perturbation
perturbed_instance(h, perturbation_return, answer_func) ==
    TaskInstance(h, [artifact_type  |-> perturbation_return.artifact_type,
                     artifact_scope |-> perturbation_return.artifact_scope,
                     table          |-> perturbation_return.table,
                     num_rows       |-> Len(perturbation_return.table.rows),
                     num_cols       |-> Len(perturbation_return.table.headers),
                     recovered_tables_transform_spec |->
                         List(perturbation_return.recovered_delta_specs),
                     answer         |-> perturbed_answer(
                                            answer_func,
                                            perturbation_return.recovered_tables)])

\* a dict with no key, or with the task's key
Registries(funcs) == {<<>>} \cup {[name \in {task_id} |-> f] : f \in funcs}

RegistryNames ==
    {"MISSING_DATA_FUNCTION_REGISTRY", "BAD_VALUES_FUNCTION_REGISTRY",
     "INCONSISTENT_FORMATTING_FUNCTION_REGISTRY", "INCONSISTENT_LOGIC_FUNCTION_REGISTRY",
     "OUTLIER_FUNCTION_REGISTRY"}

InitBuild ==
    /\ \E n \in 1..MaxRows, answers \in Registries(AnswerFuncs),
          perturbations \in [RegistryNames -> Registries(PerturbFuncs)] :
          build = [df             |-> SampleTable(n),
                   registry       |->
                       [r \in RegistryNames \cup {"ANSWER_FUNCTION_REGISTRY"} |->
                           IF r = "ANSWER_FUNCTION_REGISTRY" THEN answers
                           ELSE perturbations[r]],
                   spec           |-> EmptySpec,
                   answer_func    |-> None,
                   task_instances |-> <<>>,
                   i              |-> 1,
                   perturb_calls  |-> <<>>]
    /\ pc = "start"
    /\ heap = <<>>
    /\ target = DataFrame(<<>>, Headers)
    /\ spec = EmptySpec
    /\ ret = 0
    /\ raised = FALSE
    /\ inst = NoInstance
    /\ calls = NoCalls

\* lines 32-35: the identity spec, the answer function, ValueError without one
GetAnswerFunc ==
    /\ pc = "start"
    /\ LET answer_func == get_answer_func(build.registry, task_id)
       IN  /\ build' = [build EXCEPT
                           !.spec = generate_transform_spec_delete_overwrite(build.df,
                                                                             build.df),
                           !.answer_func = answer_func]
           /\ raised' = (answer_func = None)
           /\ pc' = IF answer_func = None THEN "raised" ELSE "clean"
    /\ UNCHANGED <<heap, target, spec, ret, inst, calls>>

\* lines 37-54
CleanInstance ==
    /\ pc = "clean"
    /\ LET r == clean_instance(heap, build.df, build.spec, build.answer_func)
       IN  /\ heap' = r.heap
           /\ build' = [build EXCEPT !.task_instances = Append(@, r.self)]
    /\ pc' = "loop"
    /\ UNCHANGED <<target, spec, ret, raised, inst, calls>>

\* lines 63-65: no function registered for the type, continue
SkipType ==
    /\ pc = "loop"
    /\ build.i <= Len(perturb_types)
    /\ get_perturbation_func(build.registry, task_id, perturb_types[build.i]) = None
    /\ build' = [build EXCEPT !.i = @ + 1]
    /\ UNCHANGED <<heap, target, spec, ret, raised, pc, inst, calls>>

\* lines 66-89: the perturbation function is called and its instance appended
Perturb ==
    /\ pc = "loop"
    /\ build.i <= Len(perturb_types)
    /\ LET perturb_type == perturb_types[build.i]
           perturb_func == get_perturbation_func(build.registry, task_id, perturb_type)
           perturbation_return == call_perturbation(perturb_func, build.df, perturb_type)
           r == perturbed_instance(heap, perturbation_return, build.answer_func)
       IN  /\ perturb_func # None
           /\ heap' = r.heap
           /\ build' = [build EXCEPT !.task_instances = Append(@, r.self),
                                     !.perturb_calls = Append(@, perturb_type),
                                     !.i = @ + 1]
    /\ UNCHANGED <<target, spec, ret, raised, pc, inst, calls>>

\* line 90
Return ==
    /\ pc = "loop"
    /\ build.i > Len(perturb_types)
    /\ pc' = "returned"
    /\ UNCHANGED <<heap, target, spec, ret, raised, inst, build, calls>>

NextBuild == GetAnswerFunc \/ CleanInstance \/ SkipType \/ Perturb \/ Return

SpecBuild == InitBuild /\ [][NextBuild]_vars

\* the artifact types in the order of the build's output
ArtifactOrder ==
    <<"missingness", "bad-values", "inconsistent-formatting",
      "inconsistent-commonsense-logic", "outliers">>

\* the artifact type has a perturbation function registered for the task
Registered(artifact_type) ==
    task_id \in DOMAIN build.registry[registry_of(artifact_type)]

RECURSIVE RegisteredAmong(_)
RegisteredAmong(types) ==
    IF types = <<>> THEN <<>>
    ELSE IF Registered(Head(types)) THEN <<Head(types)>> \o RegisteredAmong(Tail(types))
    ELSE RegisteredAmong(Tail(types))

\* what the perturbation function registered for a type returns: its perturbed
\* table and the specs of the inferrer
PerturbationOf(artifact_type) ==
    call_perturbation(build.registry[registry_of(artifact_type)][task_id], build.df,
                      artifact_type)

\* C19: add_perturbations_from_df returns first the clean instance (type and
\* scope clean, a single identity spec, the answer of the clean table), then
\* exactly one instance for each artifact type with a registered perturbation
\* function, in the order missingness, bad-values, inconsistent-formatting,
\* inconsistent-commonsense-logic, outliers; unregistered types are skipped
\* without error and each instance carries the inferrer's specs unchanged.
C19_BuildOutputOrdering ==
    pc = "returned" =>
        LET out   == build.task_instances
            types == RegisteredAmong(ArtifactOrder)
        IN  /\ ~raised
            /\ Len(out) = 1 + Len(types)
            /\ out[1].artifact_type = "clean"
            /\ out[1].artifact_scope = "clean"
            /\ out[1].table = from_df(build.df)
            /\ out[1].recovered_tables_transform_spec = List(<<NoOperations>>)
            /\ out[1].answer = call_answer(build.registry.ANSWER_FUNCTION_REGISTRY[task_id],
                                           build.df)
            /\ \A j \in 1..Len(types) :
                  /\ out[j + 1].artifact_type = types[j]
                  /\ out[j + 1].table = PerturbationOf(types[j]).table
                  /\ out[j + 1].recovered_tables_transform_spec =
                        List(PerturbationOf(types[j]).recovered_delta_specs)
            /\ build.perturb_calls = types

C19_Witness ==
    /\ pc = "returned"
    /\ Len(build.task_instances) = 3
    /\ ~Registered("missingness")
    /\ ~Registered("inconsistent-formatting")
    /\ ~Registered("outliers")
    /\ build.task_instances[2].artifact_type = "bad-values"
    /\ build.task_instances[3].artifact_type = "inconsistent-commonsense-logic"
    /\ Len(build.task_instances[3].recovered_tables_transform_spec.items) = 2

\* C20: with no answer function registered for the task id the build raises
\* ValueError before any task instance is created and before any
\* perturbation function is called.
C20_MissingAnswerFunction ==
    (task_id \notin DOMAIN build.registry.ANSWER_FUNCTION_REGISTRY /\ pc # "start") =>
        /\ pc = "raised"
        /\ raised
        /\ build.task_instances = <<>>
        /\ build.perturb_calls = <<>>
        /\ heap = <<>>

C20_Witness ==
    /\ pc = "raised"
    /\ task_id \notin DOMAIN build.registry.ANSWER_FUNCTION_REGISTRY
    /\ \A t \in Range(ArtifactOrder) : Registered(t)

(***************************************************************************)
(* Two calls of apply_transform_spec or                                    *)
(* generate_transform_spec_delete_overwrite run interleaved, statement by  *)
(* statement, over one heap of objects: frames and lists.  Objects 1 and 2 *)
(* are the lists written as the defaults of TableDeltaSpec's fields        *)
(* (radar/data/perturb.py, lines 14-15).  Each call records the objects it *)
(* reads and the objects it writes.                                        *)
(***************************************************************************)
DefaultDropRows == 1

DefaultOverwriteCells == 2

\* a new object on the heap
alloc(h, object) == [heap |-> Append(h, object), ref |-> Len(h) + 1]

\* the default list itself handed to every instance
share_default(h, default) == [heap |-> h, ref |-> default]

\* pydantic copies a mutable default for every instance
copy_default(h, default) == alloc(h, h[default])

\* TableDeltaSpec(**kwargs) on the heap, kwargs mapping keywords to lists: a
\* field given by keyword holds the validated list, a new object; a field not
\* given holds a copy of its default; other keywords are ignored
TableDeltaSpec_init(h, kwargs) ==
    LET d == IF "drop_rows" \in DOMAIN kwargs THEN alloc(h, h[kwargs.drop_rows])
             ELSE copy_default(h, DefaultDropRows)
        o == IF "overwrite_cells" \in DOMAIN kwargs
             THEN alloc(d.heap, d.heap[kwargs.overwrite_cells])
             ELSE copy_default(d.heap, DefaultOverwriteCells)
    IN  [heap  |-> o.heap,
         self  |-> [drop_rows |-> d.ref, overwrite_cells |-> o.ref],
         reads |-> {kwargs[k] : k \in DOMAIN kwargs \cap {"drop_rows", "overwrite_cells"}}
                   \cup (IF "drop_rows" \in DOMAIN kwargs THEN {} ELSE {DefaultDropRows})
                   \cup (IF "overwrite_cells" \in DOMAIN kwargs THEN {}
                         ELSE {DefaultOverwriteCells})]

\* the value of the spec object sp of the heap
spec_value(h, sp) == [drop_rows |-> h[sp.drop_rows], overwrite_cells |-> h[sp.overwrite_cells]]

\* a call that has not started: its function, its arguments and its locals
Frame(func, df, other, given) ==
    [func |-> func, df |-> df, other |-> other, given |-> given,
     pc |-> "start", k |-> 1, df_recovered |-> 0, delete_rows |-> 0,
     overwrite_cells |-> 0, lines |-> <<>>, opcodes |-> <<>>, ret |-> 0,
     reads |-> {}, writes |-> {}]

\* perturb.py line 31
apply_copy(h, c) ==
    LET cp == copy_deep(h, c.df)
    IN  [heap |-> cp.heap,
         call |-> [c EXCEPT !.df_recovered = cp.ref, !.pc = "overwrite", !.k = 1,
                            !.reads = @ \cup {c.df}, !.writes = @ \cup {cp.ref}]]

\* perturb.py lines 34-38, one turn of the loop
apply_overwrite(h, c) ==
    LET cells == h[c.other.overwrite_cells]
        one   == apply_overwrites(h, c.df_recovered, <<cells[c.k]>>)
    IN  [heap |-> one,
         call |-> [c EXCEPT !.k = @ + 1,
                            !.reads = @ \cup {c.other.overwrite_cells, c.df_recovered},
                            !.writes = @ \cup {c.df_recovered}]]

\* perturb.py line 41
apply_sort(h, c) ==
    LET l == alloc(h, sorted_reverse(h[c.other.drop_rows]))
    IN  [heap |-> l.heap,
         call |-> [c EXCEPT !.delete_rows = l.ref, !.pc = "delete", !.k = 1,
                            !.reads = @ \cup {c.other.overwrite_cells, c.other.drop_rows},
                            !.writes = @ \cup {l.ref}]]

\* perturb.py lines 44-51, one turn of the loop
apply_delete(h, c) ==
    LET one == apply_deletes(h, c.df_recovered, <<h[c.delete_rows][c.k]>>)
    IN  [heap |-> one.heap,
         call |-> [c EXCEPT !.df_recovered = one.ref, !.k = @ + 1,
                            !.reads = @ \cup {c.delete_rows, c.df_recovered},
                            !.writes = @ \cup {one.ref}]]

\* perturb.py line 53
apply_return(h, c) ==
    [heap |-> h,
     call |-> [c EXCEPT !.ret = c.df_recovered, !.pc = "done",
                        !.reads = @ \cup {c.delete_rows}]]

\* transform_spec.py lines 30-38: the lines, the opcodes and the two lists
generate_read(h, c) ==
    LET d == alloc(h, <<>>)
        o == alloc(d.heap, <<>>)
    IN  [heap |-> o.heap,
         call |-> [c EXCEPT !.lines = <<to_csv_lines(h[c.df]), to_csv_lines(h[c.other])>>,
                            !.opcodes = table_opcodes(h[c.df], h[c.other]),
                            !.delete_rows = d.ref, !.overwrite_cells = o.ref,
                            !.pc = "opcodes", !.k = 1,
                            !.reads = @ \cup {c.df, c.other},
                            !.writes = @ \cup {d.ref, o.ref}]]

\* transform_spec.py lines 40-71, one turn of the loop
generate_opcode(h, c) ==
    LET op == c.opcodes[c.k]
    IN  [heap |-> [h EXCEPT
                      ![c.delete_rows] = @ \o opcode_delete_rows(op),
                      ![c.overwrite_cells] =
                          @ \o opcode_overwrite_cells(c.lines[1], c.lines[2],
                                                      c.lines[1][1], op)],
         call |-> [c EXCEPT !.k = @ + 1,
                            !.reads = @ \cup {c.delete_rows, c.overwrite_cells},
                            !.writes = @ \cup {c.delete_rows, c.overwrite_cells}]]

\* transform_spec.py lines 73-75
generate_return(h, c) ==
    LET r == TableDeltaSpec_init(h, [delete_rows     |-> c.delete_rows,
                                     overwrite_cells |-> c.overwrite_cells])
    IN  [heap |-> r.heap,
         call |-> [c EXCEPT !.ret = r.self, !.pc = "done",
                            !.reads = @ \cup r.reads,
                            !.writes = @ \cup ({r.self.drop_rows, r.self.overwrite_cells}
                                               \ {DefaultDropRows, DefaultOverwriteCells})]]

\* the arguments of the calls: a table and a spec, given by the keywords its
\* caller constructs it with, or a perturbed and a recovered table
ConcTables == {SampleTable(n) : n \in 1..MaxRows}

ConcKwargs ==
    {<<>>,
     [drop_rows |-> <<1, 0>>],
     [drop_rows |-> <<0>>, overwrite_cells |-> <<OverwriteCell(0, "c2", "9")>>]}

ConcInputs ==
    {[func |-> "apply", df |-> df, kwargs |-> kw] : df \in ConcTables, kw \in ConcKwargs}
    \cup UNION {{[func |-> "generate", df |-> df, df_recovered |-> T] :
                    T \in {DataFrame(Tail(df.data), df.columns),
                           [df EXCEPT !.data[1][2] = "9"]}} : df \in ConcTables}

\* the caller's objects of one call put on the heap, and the call's frame
place(h, input) ==
    IF input.func = "apply"
    THEN LET f  == alloc(h, input.df)
             d  == alloc(f.heap, IF "drop_rows" \in DOMAIN input.kwargs
                                 THEN input.kwargs.drop_rows ELSE <<>>)
             o  == alloc(d.heap, IF "overwrite_cells" \in DOMAIN input.kwargs
                                 THEN input.kwargs.overwrite_cells ELSE <<>>)
             sp == TableDeltaSpec_init(o.heap,
                       [k \in DOMAIN input.kwargs |->
                           IF k = "drop_rows" THEN d.ref ELSE o.ref])
         IN  [heap |-> sp.heap,
              call |-> Frame("apply", f.ref, sp.self,
                             [df |-> input.df, spec |-> TableDeltaSpec(input.kwargs)])]
    ELSE LET f == alloc(h, input.df)
             g == alloc(f.heap, input.df_recovered)
         IN  [heap |-> g.heap,
              call |-> Frame("generate", f.ref, g.ref,
                             [df |-> input.df, df_recovered |-> input.df_recovered])]

InitConc ==
    /\ \E first \in ConcInputs, second \in ConcInputs :
          LET a == place(<<<<>>, <<>>>>, first)
              b == place(a.heap, second)
          IN  heap = b.heap /\ calls = <<a.call, b.call>>
    /\ pc = "calls"
    /\ target = DataFrame(<<>>, Headers)
    /\ spec = EmptySpec
    /\ ret = 0
    /\ raised = FALSE
    /\ inst = NoInstance
    /\ build = NoBuild

\* call t takes the step
Step(t, r) ==
    /\ heap' = r.heap
    /\ calls' = [calls EXCEPT ![t] = r.call]
    /\ UNCHANGED <<target, spec, ret, raised, pc, inst, build>>

ApplyCopy(t) ==
    /\ calls[t].func = "apply" /\ calls[t].pc = "start"
    /\ Step(t, apply_copy(heap, calls[t]))

ApplyOverwrite(t) ==
    /\ calls[t].func = "apply" /\ calls[t].pc = "overwrite"
    /\ calls[t].k <= Len(heap[calls[t].other.overwrite_cells])
    /\ Step(t, apply_overwrite(heap, calls[t]))

ApplySort(t) ==
    /\ calls[t].func = "apply" /\ calls[t].pc = "overwrite"
    /\ calls[t].k > Len(heap[calls[t].other.overwrite_cells])
    /\ Step(t, apply_sort(heap, calls[t]))

ApplyDelete(t) ==
    /\ calls[t].func = "apply" /\ calls[t].pc = "delete"
    /\ calls[t].k <= Len(heap[calls[t].delete_rows])
    /\ Step(t, apply_delete(heap, calls[t]))

ApplyReturn(t) ==
    /\ calls[t].func = "apply" /\ calls[t].pc = "delete"
    /\ calls[t].k > Len(heap[calls[t].delete_rows])
    /\ Step(t, apply_return(heap, calls[t]))

GenerateRead(t) ==
    /\ calls[t].func = "generate" /\ calls[t].pc = "start"
    /\ Step(t, generate_read(heap, calls[t]))

GenerateOpcode(t) ==
    /\ calls[t].func = "generate" /\ calls[t].pc = "opcodes"
    /\ calls[t].k <= Len(calls[t].opcodes)
    /\ Step(t, generate_opcode(heap, calls[t]))

GenerateReturn(t) ==
    /\ calls[t].func = "generate" /\ calls[t].pc = "opcodes"
    /\ calls[t].k > Len(calls[t].opcodes)
    /\ Step(t, generate_return(heap, calls[t]))

NextConc ==
    \E t \in 1..2 :
        \/ ApplyCopy(t) \/ ApplyOverwrite(t) \/ ApplySort(t) \/ ApplyDelete(t)
        \/ ApplyReturn(t)
        \/ GenerateRead(t) \/ GenerateOpcode(t) \/ GenerateReturn(t)

SpecConc == InitConc /\ [][NextConc]_vars

\* the objects a finished call's result is made of
ResultObjects(c) ==
    IF c.func = "apply" THEN {c.ret} ELSE {c.ret.drop_rows, c.ret.overwrite_cells}

\* the finished call returned what it returns when it runs alone
SameAsAlone(c) ==
    IF c.func = "apply"
    THEN /\ heap[c.ret] = applied(c.given.df, c.given.spec)
         /\ heap[c.df] = c.given.df
         /\ spec_value(heap, c.other) = c.given.spec
    ELSE /\ spec_value(heap, c.ret) =
                generate_transform_spec_delete_overwrite(c.given.df, c.given.df_recovered)
         /\ heap[c.df] = c.given.df
         /\ heap[c.other] = c.given.df_recovered

\* C17: in any interleaving of apply_transform_spec and
\* generate_transform_spec_delete_overwrite calls on independent arguments,
\* each call returns what it returns alone, no call writes an object the
\* other call reads or writes, and the results share no object, the lists of
\* default-constructed TableDeltaSpec fields included.
C17_CallIndependence ==
    \A t \in 1..2 : \A u \in (1..2) \ {t} :
        /\ calls[t].writes \cap (calls[u].reads \cup calls[u].writes) = {}
        /\ calls[t].pc = "done" => SameAsAlone(calls[t])
        /\ (calls[t].pc = "done" /\ calls[u].pc = "done") =>
              ResultObjects(calls[t]) \cap ResultObjects(calls[u]) = {}

C17_Witness ==
    /\ calls[1].pc = "done" /\ calls[2].pc = "done"
    /\ calls[1].func = "apply" /\ calls[2].func = "generate"
    /\ len(heap[calls[1].ret]) < len(heap[calls[1].df])
    /\ heap[calls[2].ret.overwrite_cells] # <<>>
    /\ heap[calls[2].ret.drop_rows] = <<>>
    /\ calls[1].writes # {} /\ calls[2].writes # {}

\* C30: for tables S and T with the same headers, every row index in the
\* operations the inferrer computes is in [0, len(S)), every col is a header
\* of S, no (row, col) pair is overwritten twice, and no row is both marked
\* for deletion and the row of an overwrite cell.
C30_InferredSpecWellFormed ==
    pc = "generated" =>
        LET S       == heap[1]
            deletes == Range(delete_rows_of(S, target)) \cup Range(spec.drop_rows)
            cells   == spec.overwrite_cells
        IN  /\ \A d \in deletes : d >= 0 /\ d < len(S)
            /\ \A c \in Range(cells) : c.row >= 0 /\ c.row < len(S) /\ HasCol(S, c.col)
            /\ \A p \in 1..Len(cells) : \A q \in 1..Len(cells) :
                  (p # q) => ~(cells[p].row = cells[q].row /\ cells[p].col = cells[q].col)
            /\ \A c \in Range(cells) : c.row \notin deletes

C30_Witness ==
    /\ pc = "generated"
    /\ spec.overwrite_cells # <<>>
    /\ delete_rows_of(heap[1], target) # <<>>

(***************************************************************************)
(* filter_df_based_on_token_count_helper (radar/build/size_by_tokens.py):  *)
(* the binary search for the row prefix of a table whose CSV text is sized *)
(* to a token bucket.  The table and the token counter, a parameter of the *)
(* function, are given by prefix_tokens: its entry n + 1 is                *)
(* count_token_func(df.iloc[:n].to_csv(index=False)).                      *)
(***************************************************************************)
MaxSizeRows == 4

MaxRowTokens == 2

\* the tokens of the header line
HeaderTokens == 1

\* a local that is None, or float("inf"), until a prefix is kept, and the local
\* holding a number
Unset == <<>>

Holding(x) == <<x>>

abs(x) == IF x < 0 THEN 0 - x ELSE x

\* count_token_func(df.iloc[:n].to_csv(index=False))
tokens_of_prefix(prefix_tokens, n) == prefix_tokens[n + 1]

\* diff < best_diff, best_diff being inf until a prefix is kept
closer(diff, best_diff) == best_diff = Unset \/ diff < best_diff[1]

\* the bounds moved past mid on the wrong side of the comparison of line 142
search_bounds_reversed(low, high, mid, tokens, token_count) ==
    IF tokens > token_count THEN [low |-> mid + 1, high |-> high]
    ELSE [low |-> low, high |-> mid - 1]

\* lines 142-145
search_bounds(low, high, mid, tokens, token_count) ==
    IF tokens < token_count THEN [low |-> mid + 1, high |-> high]
    ELSE [low |-> low, high |-> mid - 1]

\* lines 134-145: one turn of the while loop on the locals s
search_step(s) ==
    LET mid    == (s.low + s.high) \div 2
        tokens == tokens_of_prefix(s.prefix_tokens, mid)
        diff   == abs(tokens - s.token_count)
        keep   == mid >= s.min_rows /\ closer(diff, s.best_diff)
        bounds == search_bounds(s.low, s.high, mid, tokens, s.token_count)
    IN  [s EXCEPT !.best_n = IF keep THEN Holding(mid) ELSE @,
                  !.best_token_count = IF keep THEN Holding(tokens) ELSE @,
                  !.best_diff = IF keep THEN Holding(diff) ELSE @,
                  !.low = bounds.low,
                  !.high = bounds.high]

\* the token counts of the prefixes of a table of n rows: the header's, then
\* what each further row adds, never below zero
RECURSIVE PrefixTokens(_)
PrefixTokens(n) ==
    IF n = 0 THEN {<<HeaderTokens>>}
    ELSE {u \in {Append(t, t[Len(t)] + d) :
                    t \in PrefixTokens(n - 1), d \in (-1)..MaxRowTokens} :
             u[Len(u)] >= 0}

TokenBuckets == 0..(HeaderTokens + MaxSizeRows * MaxRowTokens + 1)

\* lines 128-132
InitSize ==
    /\ \E n \in 0..MaxSizeRows, min_rows \in 1..2, token_count \in TokenBuckets :
          \E prefix_tokens \in PrefixTokens(n) :
              build = [prefix_tokens |-> prefix_tokens, len |-> n,
                       token_count |-> token_count, min_rows |-> min_rows,
                       low |-> min_rows, high |-> n,
                       best_n |-> Unset, best_token_count |-> Unset,
                       best_diff |-> Unset,
                       result |-> [rows |-> 0, tokens |-> 0]]
    /\ pc = "search"
    /\ heap = <<>>
    /\ target = DataFrame(<<>>, Headers)
    /\ spec = EmptySpec
    /\ ret = 0
    /\ raised = FALSE
    /\ inst = NoInstance
    /\ calls = NoCalls

\* lines 133-145
SearchStep ==
    /\ pc = "search"
    /\ build.low <= build.high
    /\ build' = search_step(build)
    /\ UNCHANGED <<heap, target, spec, ret, raised, pc, inst, calls>>

\* lines 146-148: the prefix of best_n rows and its token count
ReturnBest ==
    /\ pc = "search"
    /\ build.low > build.high
    /\ build.best_n # Unset
    /\ build' = [build EXCEPT !.result = [rows |-> build.best_n[1],
                                          tokens |-> build.best_token_count[1]]]
    /\ pc' = "sized"
    /\ UNCHANGED <<heap, target, spec, ret, raised, inst, calls>>

\* lines 149-153: the full table and its token count
ReturnFull ==
    /\ pc = "search"
    /\ build.low > build.high
    /\ build.best_n = Unset
    /\ build' = [build EXCEPT !.result =
                    [rows |-> build.len,
                     tokens |-> tokens_of_prefix(build.prefix_tokens, build.len)]]
    /\ pc' = "sized"
    /\ UNCHANGED <<heap, target, spec, ret, raised, inst, calls>>

NextSize == SearchStep \/ ReturnBest \/ ReturnFull

SpecSize == InitSize /\ [][NextSize]_vars

\* the token counter does not decrease with the number of rows
NonDecreasing(prefix_tokens) ==
    \A n \in 1..(Len(prefix_tokens) - 1) : prefix_tokens[n] <= prefix_tokens[n + 1]

\* the distance of the prefix of n rows from the bucket
Distance(n) == abs(tokens_of_prefix(build.prefix_tokens, n) - build.token_count)

\* the prefixes of at least min_rows rows whose token count exceeds the bucket
Exceeding ==
    {n \in build.min_rows..build.len :
        tokens_of_prefix(build.prefix_tokens, n) > build.token_count}

\* C22: for a non-decreasing token counter and a table of at least min_rows
\* rows, the sizer returns the prefix with the fewest rows (at least
\* min_rows) whose token count exceeds token_count, and the full table when
\* no prefix exceeds it.
C22_SizerDocstring ==
    (pc = "sized" /\ NonDecreasing(build.prefix_tokens) /\ build.len >= build.min_rows) =>
        IF Exceeding = {} THEN build.result.rows = build.len
        ELSE /\ build.result.rows \in Exceeding
             /\ \A n \in Exceeding : build.result.rows <= n

C23_Result ==
    (pc = "sized" /\ NonDecreasing(build.prefix_tokens)) =>
        /\ build.result.tokens = tokens_of_prefix(build.prefix_tokens, build.result.rows)
        /\ IF build.len >= build.min_rows
           THEN /\ build.result.rows \in build.min_rows..build.len
                /\ \A n \in build.min_rows..build.len :
                      Distance(build.result.rows) <= Distance(n)
           ELSE build.result.rows = build.len

C23_Progress ==
    (pc = "search" /\ pc' = "search") =>
        /\ build.low <= build.high
        /\ build'.high - build'.low < build.high - build.low
        /\ build'.high - build'.low >= -1

MaxVariants == 2

\* the difference taken as a percentage of b
is_percent_difference_exceeded_of_b(a, b, x) ==
    IF a = 0 /\ b = 0 THEN FALSE
    ELSE IF a = 0 \/ b = 0 THEN TRUE
    ELSE abs(a - b) * 100 > x * abs(b)

\* add_perturbations.py lines 11-16: (abs(a - b) / abs(a)) * 100 > x.  For the
\* token counts of the model the quotient and the product are exact enough
\* that the comparison is the one of the integers.
is_percent_difference_exceeded(a, b, x) ==
    IF a = 0 /\ b = 0 THEN FALSE
    ELSE IF a = 0 \/ b = 0 THEN TRUE
    ELSE abs(a - b) * 100 > x * abs(a)

\* the keywords base_data_num_tokens and base_data_token_bucket of a
\* TaskInstance (add_perturbations.py lines 47-48 and 81-82)
with_tokens(task_instance, num_tokens, token_bucket) ==
    [k \in DOMAIN task_instance \cup {"base_data_num_tokens", "base_data_token_bucket"} |->
        IF k = "base_data_num_tokens" THEN num_tokens
        ELSE IF k = "base_data_token_bucket" THEN token_bucket
        ELSE task_instance[k]]

RECURSIVE perturbation_loop(_, _, _, _, _, _, _, _)
\* add_perturbations.py lines 56-90, from the i-th perturbation type on
perturbation_loop(h, df, num_tokens, token_bucket, registry, answer_func, i, task_instances) ==
    IF i > Len(perturb_types) THEN [heap |-> h, task_instances |-> task_instances,
                                    raised |-> FALSE]
    ELSE LET perturb_func == get_perturbation_func(registry, task_id, perturb_types[i])
         IN  IF perturb_func = None
             THEN perturbation_loop(h, df, num_tokens, token_bucket, registry,
                                    answer_func, i + 1, task_instances)
             ELSE LET r == perturbed_instance(
                               h, call_perturbation(perturb_func, df, perturb_types[i]),
                               answer_func)
                  IN  perturbation_loop(
                          r.heap, df, num_tokens, token_bucket, registry, answer_func,
                          i + 1,
                          Append(task_instances,
                                 with_tokens(r.self, num_tokens, token_bucket)))

\* add_perturbations_from_df(df, num_tokens, token_bucket, metadata): the
\* task instances, or ValueError
add_perturbations_from_df(h, df, num_tokens, token_bucket, registry) ==
    LET sp          == generate_transform_spec_delete_overwrite(df, df)
        answer_func == get_answer_func(registry, task_id)
        clean       == clean_instance(h, df, sp, answer_func)
    IN  IF answer_func = None
        THEN [heap |-> h, task_instances |-> <<>>, raised |-> TRUE]
        ELSE perturbation_loop(clean.heap, df, num_tokens, token_bucket, registry,
                               answer_func, 1,
                               <<with_tokens(clean.self, num_tokens, token_bucket)>>)

\* (num_tokens, token_bucket) of the variants: equal, apart by a tenth of
\* num_tokens and by more, and with a zero
TokenPairs ==
    {<<0, 0>>, <<0, 10>>, <<10, 0>>, <<10, 11>>, <<10, 12>>, <<10, 9>>, <<10, 8>>}

VariantKeys == {<<2, p[1], p[2]>> : p \in TokenPairs}

\* the items of dfs_filt: lists of variants with distinct keys
DfsFilt ==
    {l \in SeqsUpTo(VariantKeys, MaxVariants) :
        \A p \in 1..Len(l) : \A q \in 1..Len(l) : p # q => l[p] # l[q]}

\* the registries of the task: with or without an answer function, and with
\* one perturbation function or two
BuildRegistries ==
    {[r \in RegistryNames \cup {"ANSWER_FUNCTION_REGISTRY"} |->
         IF r = "ANSWER_FUNCTION_REGISTRY" THEN answers
         ELSE IF r \in DOMAIN perturbations
              THEN [name \in {task_id} |-> perturbations[r]]
              ELSE <<>>] :
        answers \in Registries(AnswerFuncs),
        perturbations \in {[MISSING_DATA_FUNCTION_REGISTRY |-> "missing_cell"],
                           [INCONSISTENT_LOGIC_FUNCTION_REGISTRY |-> "two_recoveries",
                            OUTLIER_FUNCTION_REGISTRY |-> "added_row"]}}

\* run.py lines 19-31
InitBuildData ==
    /\ \E keys \in DfsFilt, registry \in BuildRegistries :
          build = [dfs_filt |-> [j \in 1..Len(keys) |->
                                    [key |-> keys[j], df |-> SampleTable(MaxRows)]],
                   registry |-> registry,
                   v |-> 1,
                   all_task_instances |-> <<>>,
                   saved |-> <<>>]
    /\ pc = "variants"
    /\ heap = <<>>
    /\ target = DataFrame(<<>>, Headers)
    /\ spec = EmptySpec
    /\ ret = 0
    /\ raised = FALSE
    /\ inst = NoInstance
    /\ calls = NoCalls

\* run.py lines 44-50: the variant is skipped
SkipVariant ==
    /\ pc = "variants"
    /\ build.v <= Len(build.dfs_filt)
    /\ is_percent_difference_exceeded(build.dfs_filt[build.v].key[2],
                                      build.dfs_filt[build.v].key[3], 10)
    /\ build' = [build EXCEPT !.v = @ + 1]
    /\ UNCHANGED <<heap, target, spec, ret, raised, pc, inst, calls>>

\* run.py lines 51-54: the variant's instances are added, or the build ends
\* with the ValueError of add_perturbations_from_df
AddPerturbations ==
    /\ pc = "variants"
    /\ build.v <= Len(build.dfs_filt)
    /\ ~is_percent_difference_exceeded(build.dfs_filt[build.v].key[2],
                                       build.dfs_filt[build.v].key[3], 10)
    /\ LET r == add_perturbations_from_df(heap, build.dfs_filt[build.v].df,
                                          build.dfs_filt[build.v].key[2],
                                          build.dfs_filt[build.v].key[3],
                                          build.registry)
       IN  /\ heap' = r.heap
           /\ raised' = r.raised
           /\ pc' = IF r.raised THEN "raised" ELSE pc
           /\ build' = [build EXCEPT !.v = @ + 1,
                                     !.all_task_instances = @ \o r.task_instances]
    /\ UNCHANGED <<target, spec, ret, inst, calls>>

\* run.py lines 56-59: save_build_data writes every task instance
SaveBuildData ==
    /\ pc = "variants"
    /\ build.v > Len(build.dfs_filt)
    /\ build' = [build EXCEPT !.saved = build.all_task_instances]
    /\ pc' = "saved"
    /\ UNCHANGED <<heap, target, spec, ret, raised, inst, calls>>

NextBuildData == SkipVariant \/ AddPerturbations \/ SaveBuildData

SpecBuildData == InitBuildData /\ [][NextBuildData]_vars

\* a and b differ by more than x percent of a; two zeros do not differ, a
\* zero and a nonzero value do
DiffersByMoreThan(a, b, x) ==
    IF a = 0 /\ b = 0 THEN FALSE
    ELSE IF a = 0 \/ b = 0 THEN TRUE
    ELSE (IF a > b THEN a - b ELSE b - a) * 100 > x * (IF a < 0 THEN -a ELSE a)

\* the saved task instances of the variant at position j of dfs_filt
InstancesOf(j) ==
    {i \in 1..Len(build.saved) :
        /\ build.saved[i].base_data_num_tokens = build.dfs_filt[j].key[2]
        /\ build.saved[i].base_data_token_bucket = build.dfs_filt[j].key[3]}

MaxRetries == 3

prefix == <<"T", "h", "e", " ", "a", "n", "s", "w", "e", "r", " ", "i", "s", ":">>

\* str.lower of one character: the characters it becomes
lower_char(c) ==
    LET ascii == [T |-> "t", H |-> "h", E |-> "e", A |-> "a", N |-> "n", S |-> "s",
                  W |-> "w", R |-> "r", I |-> "i"]
    IN  IF c \in DOMAIN ascii THEN <<ascii[c]>>
        ELSE IF c = "U+0130" THEN <<"i", "U+0307">>
        ELSE <<c>>

\* text.lower()
RECURSIVE lower(_)
lower(text) == IF text = <<>> THEN <<>> ELSE lower_char(Head(text)) \o lower(Tail(text))

\* the 0-based positions at which sub occurs in text
occurrences(text, sub) ==
    {i \in 0..(Len(text) - Len(sub)) : SubSeq(text, i + 1, i + Len(sub)) = sub}

\* text.rfind(sub) where sub occurs
rfind(text, sub) == CHOOSE i \in occurrences(text, sub) : \A j \in occurrences(text, sub) : j <= i

\* text.strip()
RECURSIVE strip(_)
strip(text) ==
    IF text = <<>> THEN text
    ELSE IF Head(text) = " " THEN strip(Tail(text))
    ELSE IF text[Len(text)] = " " THEN strip(SubSeq(text, 1, Len(text) - 1))
    ELSE text

\* the message of the ValueError of measure.py lines 10-15
NoAnswerFound == <<"No \"The answer is:\" found in the response.">>

\* measure.py lines 7-18: the answer, or ValueError with its message
extract_value_from_answer(text) ==
    LET lower_text == lower(text)
    IN  IF occurrences(lower_text, lower(prefix)) = {}
        THEN [raised |-> TRUE, value |-> NoAnswerFound]
        ELSE LET idx == rfind(lower_text, lower(prefix))
             IN  [raised |-> FALSE,
                  value  |-> strip(SubSeq(text, idx + Len(prefix) + 1, Len(text)))]

Message(role, content) == [role |-> role, content |-> content]

\* the responses of the language model: without the prefix, with it, with it
\* in capitals, with it twice, and with it after a dotted capital I
Responses ==
    {<<"n", "o", " ", "i", "d", "e", "a">>,
     prefix \o <<" ", "4", "2">>,
     <<"T", "H", "E", " ", "A", "N", "S", "W", "E", "R", " ", "I", "S", ":">> \o <<" ", "7">>,
     prefix \o <<"1", " ">> \o lower(prefix) \o <<"2">>,
     <<"U+0130">> \o prefix \o <<"4", "2">>}

\* the message of a ValueError raised by llm_call itself
LlmError == <<"llm_call failed">>

\* direct_prompt.py lines 48-60
InitDirect ==
    /\ \E n \in 1..MaxRetries :
          calls = [num_retry_validate |-> n,
                   attempts |-> 0,
                   llm_calls |-> 0,
                   llm_messages |-> <<Message("system", <<"PREAMBLE">>),
                                      Message("user", <<"TASK_PROMPT">>)>>,
                   llm_messages_metadata |-> <<>>,
                   answer |-> Unset,
                   next_message |-> Unset,
                   ret |-> Unset]
    /\ pc = "loop"
    /\ heap = <<>>
    /\ target = DataFrame(<<>>, Headers)
    /\ spec = EmptySpec
    /\ ret = 0
    /\ raised = FALSE
    /\ inst = NoInstance
    /\ build = NoBuild

\* lines 61-70, one turn of the loop in which llm_call returns resp: the
\* answer is extracted and the loop left, or the ValueError's message is
\* appended as a user message
LlmResponds ==
    /\ pc = "loop"
    /\ calls.attempts < calls.num_retry_validate
    /\ calls.answer = Unset
    /\ \E resp \in Responses :
          LET extracted == extract_value_from_answer(resp)
              appended  == Append(calls.llm_messages, Message("assistant", resp))
          IN  calls' = [calls EXCEPT
                  !.attempts = @ + 1,
                  !.llm_calls = @ + 1,
                  !.llm_messages_metadata = Append(@, "metadata"),
                  !.llm_messages = IF extracted.raised
                                   THEN Append(appended, Message("user", extracted.value))
                                   ELSE appended,
                  !.answer = IF extracted.raised THEN @ ELSE Holding(extracted.value),
                  !.next_message = IF extracted.raised THEN Holding(extracted.value)
                                   ELSE @]
    /\ UNCHANGED <<heap, target, spec, ret, raised, pc, inst, build>>

\* lines 61-70, one turn of the loop in which llm_call raises ValueError
LlmRaises ==
    /\ pc = "loop"
    /\ calls.attempts < calls.num_retry_validate
    /\ calls.answer = Unset
    /\ calls' = [calls EXCEPT
                    !.attempts = @ + 1,
                    !.llm_calls = @ + 1,
                    !.llm_messages = Append(@, Message("user", LlmError)),
                    !.next_message = Holding(LlmError)]
    /\ UNCHANGED <<heap, target, spec, ret, raised, pc, inst, build>>

\* lines 71-72
RaiseNoAnswer ==
    /\ pc = "loop"
    /\ calls.attempts = calls.num_retry_validate
    /\ calls.answer = Unset
    /\ raised' = TRUE
    /\ pc' = "raised"
    /\ UNCHANGED <<heap, target, spec, ret, inst, build, calls>>

\* lines 74-84
ReturnResult ==
    /\ pc = "loop"
    /\ calls.answer # Unset
    /\ calls' = [calls EXCEPT !.ret = Holding([llm_extracted_answer |-> calls.answer[1],
                                               llm_messages |-> calls.llm_messages])]
    /\ pc' = "returned"
    /\ UNCHANGED <<heap, target, spec, ret, raised, inst, build>>

NextDirect == LlmResponds \/ LlmRaises \/ RaiseNoAnswer \/ ReturnResult

SpecDirect == InitDirect /\ [][NextDirect]_vars

\* two characters are the same letter, whatever their case
SameLetter(c, d) == lower_char(c) = lower_char(d)

\* the 0-based positions of text at which the prefix stands, in any case
PrefixAt(text) ==
    {i \in 0..(Len(text) - Len(prefix)) :
        \A k \in 1..Len(prefix) : SameLetter(text[i + k], prefix[k])}

\* the text after the last prefix of a text that has one, stripped
AfterLastPrefix(text) ==
    LET last == CHOOSE i \in PrefixAt(text) : \A j \in PrefixAt(text) : j <= i
    IN  strip(SubSeq(text, last + Len(prefix) + 1, Len(text)))

\* the contents of the assistant messages, in order
AssistantResponses ==
    LET at == {p \in 1..Len(calls.llm_messages) : calls.llm_messages[p].role = "assistant"}
    IN  {calls.llm_messages[p].content : p \in at}

\* the retry protocol apart from the value of the answer
DirectPromptRetries ==
    /\ calls.llm_calls <= calls.num_retry_validate
    /\ \A p \in 3..Len(calls.llm_messages) :
          (calls.llm_messages[p].role = "assistant" /\ p < Len(calls.llm_messages)) =>
              /\ PrefixAt(calls.llm_messages[p].content) = {}
              /\ calls.llm_messages[p + 1] = Message("user", NoAnswerFound)
    /\ pc = "returned" =>
          PrefixAt(calls.llm_messages[Len(calls.llm_messages)].content) # {}
    /\ pc = "raised" =>
          /\ calls.ret = Unset
          /\ calls.llm_calls = calls.num_retry_validate
          /\ \A r \in AssistantResponses : PrefixAt(r) = {}

\* C24: run_direct_prompt calls the LLM at most num_retry_validate times and
\* stops at the first response containing "The answer is:" in any case, whose
\* text after the last occurrence is the answer; a response without the
\* prefix is appended as an assistant message followed by a corrective user
\* message; with no response containing the prefix it raises ValueError and
\* returns nothing.
C24_DirectPromptRetry ==
    /\ DirectPromptRetries
    /\ pc = "returned" =>
          calls.ret[1].llm_extracted_answer =
              AfterLastPrefix(calls.llm_messages[Len(calls.llm_messages)].content)

(***************************************************************************)
(* The code agent (radar/evaluate/baselines/code_agent.py and tools.py).   *)
(* An LLM response is described by what parse_command reads of it: its     *)
(* first fenced yaml block, if it has one, and the whole text, each as the *)
(* document yaml.safe_load makes of it.  CodeState objects live in         *)
(* calls.objects and calls.states lists their positions, so that the       *)
(* state PythonShell.execute changes in place is one object.               *)
(***************************************************************************)
MaxSteps == 3

\* yaml.safe_load: malformed text, a plain scalar, a mapping
YamlError == [type |-> "error"]

Scalar == [type |-> "scalar"]

Mapping(m) == [type |-> "mapping", value |-> m]

\* a response with a fenced yaml block after its discussion
Fenced(doc) == [block |-> Holding(doc), whole |-> Scalar]

\* a response without a fenced block
Bare(doc) == [block |-> Unset, whole |-> doc]

\* tools.py lines 26-28: command is required, kwargs defaults to None
ToolParsed(json_object) ==
    IF "command" \in DOMAIN json_object
    THEN [raised  |-> "",
          value   |-> [command |-> json_object.command,
                       kwargs  |-> IF "kwargs" \in DOMAIN json_object
                                   THEN Holding(json_object.kwargs)
                                   ELSE Unset]]
    ELSE [raised |-> "ValidationError", value |-> Unset]

\* tools.py lines 64-82: YAMLError and ValidationError become ValueError, the
\* TypeError of ToolParsed(**json_object) on a scalar is not caught here
parse_command(llm_resp) ==
    LET yaml_str == IF llm_resp.block # Unset THEN llm_resp.block[1]
                    ELSE llm_resp.whole
    IN  CASE yaml_str.type = "error"  -> [raised |-> "ValueError", value |-> Unset]
          [] yaml_str.type = "scalar" -> [raised |-> "TypeError", value |-> Unset]
          [] OTHER ->
               LET parsed == ToolParsed(yaml_str.value)
               IN  IF parsed.raised = "ValidationError"
                   THEN [raised |-> "ValueError", value |-> Unset]
                   ELSE parsed

\* tools.py lines 12-16
CodeState(memory, observation, is_done, answer) ==
    [memory |-> memory, observation |-> observation,
     is_done |-> is_done, answer |-> answer]

\* tools.py lines 172-177, lf.coding.python.run on the shell's variables: an
\* assignment binds a name and prints nothing, a name evaluates to its value
\* and raises NameError when it is not bound
run(code, memory) ==
    CASE code = "x = 1" ->
           [raised |-> FALSE, result |-> Unset, stdout |-> Holding(""),
            vars |-> {"x"}]
      [] code = "x" /\ "x" \in memory ->
           [raised |-> FALSE, result |-> Holding("1"), stdout |-> Holding(""),
            vars |-> {}]
      [] OTHER ->
           [raised |-> TRUE, error |-> "name 'x' is not defined"]

\* subscripting parsed.kwargs: None is not subscriptable, a dict raises
\* KeyError on a key it lacks
subscript(kwargs, key) ==
    IF kwargs = Unset THEN [raised |-> "TypeError", value |-> Unset]
    ELSE IF key \notin DOMAIN kwargs[1] THEN [raised |-> "KeyError", value |-> Unset]
    ELSE [raised |-> "", value |-> Holding(kwargs[1][key])]

\* tools.py lines 168-187: every exception becomes the observation, the
\* state is changed in place and returned
PythonShell_execute(parsed, state) ==
    LET code == subscript(parsed.kwargs, "code")
        res  == run(code.value[1], state.memory)
    IN  IF code.raised # ""
        THEN [raised |-> "", in_place |-> TRUE,
              state |-> [state EXCEPT !.observation = Holding(code.raised)]]
        ELSE IF res.raised
        THEN [raised |-> "", in_place |-> TRUE,
              state |-> [state EXCEPT !.observation = Holding(res.error)]]
        ELSE [raised |-> "", in_place |-> TRUE,
              state |-> [state EXCEPT
                            !.memory = @ \cup res.vars,
                            !.observation = IF res.result # Unset THEN res.result
                                            ELSE res.stdout]]

\* tools.py lines 137-143: a new state holding the answer
Done_execute(parsed, state) ==
    LET answer == subscript(parsed.kwargs, "answer")
    IN  IF answer.raised # ""
        THEN [raised |-> answer.raised, in_place |-> FALSE, state |-> state]
        ELSE [raised |-> "", in_place |-> FALSE,
              state |-> CodeState(state.memory, Unset, TRUE, answer.value)]

\* an unknown command reported as an observation in place of the ValueError
execute_tool_reporting(tool, state) ==
    CASE tool.command = "python" -> PythonShell_execute(tool, state)
      [] tool.command = "done"   -> Done_execute(tool, state)
      [] OTHER -> [raised |-> "", in_place |-> TRUE,
                   state |-> [state EXCEPT !.observation = Holding("Invalid command")]]

\* tools.py lines 101-109
execute_tool(tool, state) ==
    CASE tool.command = "python" -> PythonShell_execute(tool, state)
      [] tool.command = "done"   -> Done_execute(tool, state)
      [] OTHER -> [raised |-> "ValueError", in_place |-> FALSE, state |-> state]

\* code_agent.py lines 107-111
YamlRequest(e) == [kind |-> "parse_error", error |-> e,
                   request |-> "Please ensure the YAML is properly formatted."]

\* code_agent.py lines 126 and 55-58
STATE_PROMPT(observation) == [kind |-> "observation", observation |-> observation]

\* the decimal text of a small number, as the f-string renders it
str(n) == <<"0", "1", "2", "3", "4", "5", "6", "7", "8", "9">>[n + 1]

\* code_agent.py line 129
MaximumStepsReached(max_steps) == <<"Maximum ", str(max_steps), " steps reached.">>

\* the whole list in place of messages[:-1]
whole_list(messages) == messages

\* code_agent.py line 130, messages[:-1]
all_but_last(messages) == SubSeq(messages, 1, Len(messages) - 1)

\* states[-1]
last_state == calls.objects[calls.states[Len(calls.states)]]

\* the responses an LLM gives
AgentResponses ==
    {Fenced(YamlError),
     Bare(Scalar),
     Fenced(Mapping([kwargs |-> [code |-> "x"]])),
     Fenced(Mapping([command |-> "python", kwargs |-> [code |-> "x = 1"]])),
     Fenced(Mapping([command |-> "python", kwargs |-> [code |-> "x"]])),
     Fenced(Mapping([command |-> "python"])),
     Fenced(Mapping([command |-> "done", kwargs |-> [answer |-> <<"42">>]])),
     Bare(Mapping([command |-> "done", kwargs |-> [answer |-> <<"7">>]])),
     Fenced(Mapping([command |-> "done"])),
     Fenced(Mapping([command |-> "done", kwargs |-> [code |-> "x"]])),
     Fenced(Mapping([command |-> "fly"]))}

\* code_agent.py lines 82-99
InitAgent ==
    /\ \E n \in 0..MaxSteps :
          calls = [max_steps |-> n,
                   step |-> 0,
                   llm_calls |-> 0,
                   messages |-> <<Message("system", [kind |-> "PREAMBLE"]),
                                  Message("user", [kind |-> "TASK_PROMPT"])>>,
                   messages_metadata |-> 0,
                   objects |-> <<CodeState({"df"}, Unset, FALSE, Unset)>>,
                   states |-> <<1>>,
                   llm_resp |-> Unset,
                   error |-> "",
                   ret |-> Unset]
    /\ pc = "loop"
    /\ heap = <<>>
    /\ target = DataFrame(<<>>, Headers)
    /\ spec = EmptySpec
    /\ ret = 0
    /\ raised = FALSE
    /\ inst = NoInstance
    /\ build = NoBuild

\* lines 100-104: the LLM is called and its response appended
CallLlm ==
    /\ pc = "loop"
    /\ calls.step < calls.max_steps
    /\ \E llm_resp \in AgentResponses, resp_metadata \in BOOLEAN :
          calls' = [calls EXCEPT
                       !.step = @ + 1,
                       !.llm_calls = @ + 1,
                       !.llm_resp = Holding(llm_resp),
                       !.messages = Append(@, Message("assistant",
                                        [kind |-> "response", resp |-> llm_resp])),
                       !.messages_metadata = IF resp_metadata THEN @ + 1 ELSE @]
    /\ pc' = "called"
    /\ UNCHANGED <<heap, target, spec, ret, raised, inst, build>>

\* lines 105-118: the response does not parse
ParseFails ==
    /\ pc = "called"
    /\ LET tool_parsed == parse_command(calls.llm_resp[1])
       IN  /\ tool_parsed.raised # ""
           /\ calls' = [calls EXCEPT
                           !.messages = Append(@, Message("user",
                                                   YamlRequest(tool_parsed.raised)))]
    /\ pc' = "loop"
    /\ UNCHANGED <<heap, target, spec, ret, raised, inst, build>>

\* the objects and the list of states after execute_tool returned
executed(result) ==
    IF result.in_place
    THEN [objects |-> [calls.objects EXCEPT ![calls.states[Len(calls.states)]] =
                                                result.state],
          states  |-> Append(calls.states, calls.states[Len(calls.states)])]
    ELSE [objects |-> Append(calls.objects, result.state),
          states  |-> Append(calls.states, Len(calls.objects) + 1)]

\* lines 119-128: the tool ran and the task is not done
ExecuteContinues ==
    /\ pc = "called"
    /\ LET tool_parsed == parse_command(calls.llm_resp[1])
       IN  /\ tool_parsed.raised = ""
           /\ LET next_state == execute_tool(tool_parsed.value, last_state)
              IN  /\ next_state.raised = ""
                  /\ ~next_state.state.is_done
                  /\ calls' = [calls EXCEPT
                          !.objects = executed(next_state).objects,
                          !.states = executed(next_state).states,
                          !.messages = Append(@, Message("user",
                                          STATE_PROMPT(next_state.state.observation)))]
    /\ pc' = "loop"
    /\ UNCHANGED <<heap, target, spec, ret, raised, inst, build>>

\* lines 119-122: the tool ran and the task is done
ExecuteDone ==
    /\ pc = "called"
    /\ LET tool_parsed == parse_command(calls.llm_resp[1])
       IN  /\ tool_parsed.raised = ""
           /\ LET next_state == execute_tool(tool_parsed.value, last_state)
              IN  /\ next_state.raised = ""
                  /\ next_state.state.is_done
                  /\ calls' = [calls EXCEPT
                          !.objects = executed(next_state).objects,
                          !.states = executed(next_state).states,
                          !.ret = Holding([messages |-> calls.messages,
                                           answer |-> next_state.state.answer])]
    /\ pc' = "returned"
    /\ UNCHANGED <<heap, target, spec, ret, raised, inst, build>>

\* line 119: the exception of execute_tool leaves run
ExecuteRaises ==
    /\ pc = "called"
    /\ LET tool_parsed == parse_command(calls.llm_resp[1])
       IN  /\ tool_parsed.raised = ""
           /\ LET next_state == execute_tool(tool_parsed.value, last_state)
              IN  /\ next_state.raised # ""
                  /\ calls' = [calls EXCEPT !.error = next_state.raised]
    /\ raised' = TRUE
    /\ pc' = "raised"
    /\ UNCHANGED <<heap, target, spec, ret, inst, build>>

\* lines 129-130
ReturnLimit ==
    /\ pc = "loop"
    /\ calls.step = calls.max_steps
    /\ LET answer == Holding(MaximumStepsReached(calls.max_steps))
       IN  calls' = [calls EXCEPT
                        !.objects[calls.states[Len(calls.states)]].answer = answer,
                        !.ret = Holding([messages |-> all_but_last(calls.messages),
                                         answer |-> answer])]
    /\ pc' = "returned"
    /\ UNCHANGED <<heap, target, spec, ret, raised, inst, build>>

NextAgent ==
    \/ CallLlm
    \/ ParseFails
    \/ ExecuteContinues
    \/ ExecuteDone
    \/ ExecuteRaises
    \/ ReturnLimit

SpecAgent == InitAgent /\ [][NextAgent]_vars

\* the command the response of the current step parses to
CurrentParse == parse_command(calls.llm_resp[1])

CurrentCommand == CurrentParse.value.command

\* the current step is at the point after the LLM's response
Parses == pc = "called" /\ CurrentParse.raised = ""

FailsToParse == pc = "called" /\ CurrentParse.raised # ""

\* the responses of the transcript that parse to the command 'done'
DoneResponses(messages) ==
    {p \in 1..Len(messages) :
        /\ messages[p].role = "assistant"
        /\ parse_command(messages[p].content.resp).raised = ""
        /\ parse_command(messages[p].content.resp).value.command = "done"}

LastMessage(messages) == messages[Len(messages)]

\* a response that fails to parse is answered with the request for
\* well-formed YAML and leaves the shell state as it was
ParseFailureStep ==
    FailsToParse =>
        /\ calls'.objects = calls.objects
        /\ calls'.states = calls.states
        /\ calls'.step = calls.step
        /\ Len(calls'.messages) = Len(calls.messages) + 1
        /\ LastMessage(calls'.messages).role = "user"
        /\ LastMessage(calls'.messages).content.kind = "parse_error"
        /\ pc' = "loop"

\* a step whose command is 'done' returns the command's answer at once
DoneStep ==
    (Parses /\ CurrentCommand = "done") =>
        /\ pc' = "returned"
        /\ calls'.llm_calls = calls.llm_calls
        /\ calls'.ret # Unset
        /\ calls'.ret[1].answer = Holding(CurrentParse.value.kwargs[1].answer)

\* the same of the 'done' commands that carry an answer
DoneStepWithAnswer ==
    (/\ Parses
     /\ CurrentCommand = "done"
     /\ subscript(CurrentParse.value.kwargs, "answer").raised = "") => DoneStep

\* without a 'done' the answer returned is the step limit's
LimitAnswer ==
    (pc = "returned" /\ DoneResponses(calls.messages) = {}) =>
        calls.ret[1].answer = Holding(MaximumStepsReached(calls.max_steps))

\* the step bound with the 'done' commands that carry an answer
AgentStepBound ==
    /\ [](calls.llm_calls <= calls.max_steps /\ LimitAnswer)
    /\ [][ParseFailureStep /\ DoneStepWithAnswer]_vars

\* C25: CodegenAgent.run calls the LLM at most max_steps times; the first
\* step whose parsed command is 'done' returns at once with the command's
\* answer and no further LLM call; a response that fails to parse consumes a
\* step, leaves the shell state unchanged and is answered with a user
\* message asking for well-formed YAML; without a 'done' within max_steps
\* calls the answer returned is 'Maximum {max_steps} steps reached.'.
C25_StepBound ==
    /\ [](calls.llm_calls <= calls.max_steps /\ LimitAnswer)
    /\ [][ParseFailureStep /\ DoneStep]_vars

\* system, user, then assistant and user in turn
TranscriptShape(messages) ==
    /\ Len(messages) >= 2
    /\ messages[1].role = "system"
    /\ messages[2].role = "user"
    /\ \A p \in 3..Len(messages) :
          messages[p].role = IF p % 2 = 1 THEN "assistant" ELSE "user"

\* C26: for max_steps >= 1, in every reachable state of CodegenAgent.run the
\* message list is a system message, a user message, then assistant and user
\* messages strictly alternating, and the list returned by either exit, done
\* or step limit, ends with an assistant message.
C26_TranscriptShape ==
    calls.max_steps >= 1 =>
        /\ TranscriptShape(calls.messages)
        /\ pc = "returned" =>
              /\ TranscriptShape(calls.ret[1].messages)
              /\ LastMessage(calls.ret[1].messages).role = "assistant"

\* the step limit was reached after a parse failure or an observation, whose
\* user message the returned list leaves out
C26_Witness ==
    /\ pc = "returned"
    /\ calls.max_steps >= 2
    /\ calls.step = calls.max_steps
    /\ LastMessage(calls.messages).role = "user"
    /\ Len(calls.ret[1].messages) = Len(calls.messages) - 1

\* the python command of the current step has code that raises
PythonCodeRaises ==
    /\ Parses
    /\ CurrentCommand = "python"
    /\ subscript(CurrentParse.value.kwargs, "code").raised = ""
    /\ run(CurrentParse.value.kwargs[1].code, last_state.memory).raised

\* the step is answered by one more user message and the loop goes on
ReportedBack ==
    /\ pc' = "loop"
    /\ raised' = FALSE
    /\ Len(calls'.messages) = Len(calls.messages) + 1
    /\ LastMessage(calls'.messages).role = "user"

\* a command that is neither python nor done aborts the run
UnknownCommandStep ==
    (Parses /\ CurrentCommand \notin {"python", "done"}) =>
        /\ pc' = "raised"
        /\ raised' = TRUE
        /\ calls'.error = "ValueError"
        /\ calls'.messages = calls.messages
        /\ calls'.ret = Unset

PythonErrorStep ==
    PythonCodeRaises =>
        /\ ReportedBack
        /\ LastMessage(calls'.messages).content.kind = "observation"
        /\ LastMessage(calls'.messages).content.observation =
              Holding(run(CurrentParse.value.kwargs[1].code, last_state.memory).error)

\* C27: a response that parses and names a command other than 'python' or
\* 'done' makes CodegenAgent.run raise ValueError, with no result and no
\* message fed back, whereas a response that fails to parse and a 'python'
\* command whose code raises are reported back as a user message and the
\* loop continues.
C27_ErrorAsymmetry ==
    /\ [](pc = "raised" => (calls.ret = Unset /\ raised))
    /\ [][/\ UnknownCommandStep
          /\ FailsToParse => (ReportedBack /\
                LastMessage(calls'.messages).content.kind = "parse_error")
          /\ PythonErrorStep]_vars

\* a run that reported a parse failure and a python error back and was then
\* aborted by an unknown command
C27_Witness ==
    /\ pc = "raised"
    /\ calls.error = "ValueError"
    /\ CurrentCommand = "fly"
    /\ \E p \in 3..Len(calls.messages) :
          /\ calls.messages[p].role = "user"
          /\ calls.messages[p].content.kind = "parse_error"
    /\ \E p \in 3..Len(calls.messages) :
          /\ calls.messages[p].role = "user"
          /\ calls.messages[p].content.kind = "observation"
          /\ calls.messages[p].content.observation = Holding("name 'x' is not defined")

(***************************************************************************)
(* Parallel evaluation (radar/evaluate/run.py, run_eval with run_parallel  *)
(* true).  lf.concurrent_map runs run_func on the inputs with a pool of    *)
(* max_workers threads that take the inputs in their order, and with       *)
(* ordered=True it yields (input, output, error) in the order of the       *)
(* inputs; an Exception of run_func is yielded as the error.               *)
(***************************************************************************)
MaxTasks == 3

MaxWorkers == 2

\* the messages of the exceptions a baseline run raises
ErrorMessages == {"No answer found", "Invalid command: fly"}

\* str(error)
str_of_error(error) == [type |-> "str", value |-> error.message]

\* evaluate/datamodel.py lines 19-27, the fields the saving reads
TaskInstanceRunResult(task, is_correct) ==
    [type |-> "TaskInstanceRunResult", task_instance_id |-> task,
     is_correct |-> is_correct]

\* the tasks in the state st
tasks_in(st) == {t \in 1..calls.num_tasks : calls.status[t] = st}

\* the input the pool starts next: the first one not yet started
next_input == CHOOSE t \in tasks_in("pending") : \A u \in tasks_in("pending") : t <= u

\* the results in the order in which the runs finished
next_completed ==
    IF \E k \in 1..Len(calls.finished) : calls.finished[k] \notin calls.yielded
    THEN Holding(calls.finished[CHOOSE k \in 1..Len(calls.finished) :
                   /\ calls.finished[k] \notin calls.yielded
                   /\ \A j \in 1..(k - 1) : calls.finished[j] \in calls.yielded])
    ELSE Unset

\* run.py lines 139-145, ordered=True: the result of the first input not yet
\* yielded, once its run has finished
next_ordered ==
    LET t == Cardinality(calls.yielded) + 1
    IN  IF t <= calls.num_tasks /\ calls.status[t] = "finished"
        THEN Holding(t) ELSE Unset

\* results.py lines 34-42 and run.py lines 174-183: the rows and the files
\* are those of the TaskInstanceRunResult entries, the strings are counted
process_results(task_results) ==
    LET rows == {k \in 1..Len(task_results) :
                    task_results[k].type = "TaskInstanceRunResult"}
    IN  [raised |-> rows = {},
         individual_results |-> {task_results[k].task_instance_id : k \in rows},
         num_error_encountered |-> Cardinality({k \in 1..Len(task_results) :
                                                   task_results[k].type = "str"})]

\* run.py lines 121-135
InitEval ==
    /\ \E n \in 1..MaxTasks, w \in 1..MaxWorkers :
          calls = [num_tasks |-> n,
                   num_workers |-> w,
                   status |-> [t \in 1..n |-> "pending"],
                   output |-> [t \in 1..n |-> Unset],
                   error |-> [t \in 1..n |-> Unset],
                   finished |-> <<>>,
                   yielded |-> {},
                   all_results |-> <<>>,
                   saved |-> Unset]
    /\ pc = "map"
    /\ heap = <<>>
    /\ target = DataFrame(<<>>, Headers)
    /\ spec = EmptySpec
    /\ ret = 0
    /\ raised = FALSE
    /\ inst = NoInstance
    /\ build = NoBuild

\* line 144: a free worker of the pool takes the next input
WorkerStarts ==
    /\ pc = "map"
    /\ tasks_in("pending") # {}
    /\ Cardinality(tasks_in("running")) < calls.num_workers
    /\ calls' = [calls EXCEPT !.status[next_input] = "running"]
    /\ UNCHANGED <<heap, target, spec, ret, raised, pc, inst, build>>

\* lines 129-133: run_func returns the result of a task
WorkerReturns ==
    /\ pc = "map"
    /\ \E t \in tasks_in("running"), is_correct \in BOOLEAN :
          calls' = [calls EXCEPT
                       !.status[t] = "finished",
                       !.output[t] = Holding(TaskInstanceRunResult(t, is_correct)),
                       !.finished = Append(@, t)]
    /\ UNCHANGED <<heap, target, spec, ret, raised, pc, inst, build>>

\* lines 129-133: run_func raises
WorkerRaises ==
    /\ pc = "map"
    /\ \E t \in tasks_in("running"), message \in ErrorMessages :
          calls' = [calls EXCEPT
                       !.status[t] = "finished",
                       !.error[t] = Holding([message |-> message]),
                       !.finished = Append(@, t)]
    /\ UNCHANGED <<heap, target, spec, ret, raised, pc, inst, build>>

\* lines 139-150, one turn of the loop over the yielded results
Collect ==
    /\ pc = "map"
    /\ next_ordered # Unset
    /\ LET t == next_ordered[1]
       IN  calls' = [calls EXCEPT
                        !.yielded = @ \cup {t},
                        !.all_results =
                            IF calls.error[t] # Unset
                            THEN Append(@, str_of_error(calls.error[t][1]))
                            ELSE Append(@, calls.output[t][1])]
    /\ UNCHANGED <<heap, target, spec, ret, raised, pc, inst, build>>

\* lines 155 and 158-184, the map being exhausted
SaveEvalResults ==
    /\ pc = "map"
    /\ Cardinality(calls.yielded) = calls.num_tasks
    /\ LET saved == process_results(calls.all_results)
       IN  IF saved.raised
           THEN /\ raised' = TRUE
                /\ pc' = "raised"
                /\ UNCHANGED calls
           ELSE /\ calls' = [calls EXCEPT !.saved = Holding(saved)]
                /\ pc' = "saved"
                /\ UNCHANGED raised
    /\ UNCHANGED <<heap, target, spec, ret, inst, build>>

NextEval ==
    \/ WorkerStarts
    \/ WorkerReturns
    \/ WorkerRaises
    \/ Collect
    \/ SaveEvalResults

SpecEval == InitEval /\ [][NextEval]_vars

\* the entry of all_results that belongs to task t
EntryOf(t) ==
    IF calls.error[t] # Unset
    THEN [type |-> "str", value |-> calls.error[t][1].message]
    ELSE IF calls.output[t] # Unset THEN calls.output[t][1]
    ELSE [type |-> "unfinished"]

\* the tasks whose run returned a result
Succeeded == {t \in 1..calls.num_tasks : calls.output[t] # Unset}

\* C28: with run_parallel true, run_eval collects exactly one entry per task
\* in task order, whatever the order in which the at most num_workers
\* concurrent workers finish; a task whose run raises is recorded as the
\* string of its error and prevents neither the other tasks from running nor
\* their results from being saved.
C28_ParallelResults ==
    /\ Cardinality(tasks_in("running")) <= calls.num_workers
    /\ Len(calls.all_results) <= calls.num_tasks
    /\ \A k \in 1..Len(calls.all_results) : calls.all_results[k] = EntryOf(k)
    /\ pc \in {"saved", "raised"} =>
          /\ Len(calls.all_results) = calls.num_tasks
          /\ tasks_in("finished") = 1..calls.num_tasks
    /\ pc = "saved" => calls.saved[1].individual_results = Succeeded
    /\ pc = "raised" => Succeeded = {}

\* three tasks on two workers, the second finished before the first, one
\* raised and the results of the others were saved
C28_Witness ==
    /\ pc = "saved"
    /\ calls.num_tasks = 3
    /\ calls.num_workers = 2
    /\ calls.finished[1] = 2
    /\ calls.error[1] # Unset
    /\ calls.all_results[1].type = "str"
    /\ calls.saved[1].individual_results = {2, 3}

(***************************************************************************)
(* get_non_overlapping_random_indices (radar/tasks/utils.py, lines 65-107).*)
(* A percentage is the pair <<numerator, denominator>> of a fraction;      *)
(* np.random.choice without replacement is any arrangement of any          *)
(* num_random of the indices.                                              *)
(***************************************************************************)
MaxIndex == 4

MaxPercentages == 2

\* line 95, int(len(all_indices) * percentage): truncation of the product
int_of_product(n, percentage) == (n * percentage[1]) \div percentage[2]

\* line 95
num_random_of(all_indices, percentage) ==
    Max(1, int_of_product(Cardinality(all_indices), percentage))

\* lines 101-104: the lists np.random.choice(..., replace=False) can return
choice(all_indices, num_random) ==
    {selected \in [1..num_random -> all_indices] :
        \A a, b \in 1..num_random : a # b => selected[a] # selected[b]}

\* the indices kept as they were after a selection
kept_indices(all_indices, selected_indices) == all_indices

\* line 105
remaining_indices(all_indices, selected_indices) ==
    all_indices \ Range(selected_indices)

\* lines 86-91
initial_indices(df_index, inds_to_include, inds_to_exclude) ==
    LET all_indices == IF inds_to_include # Unset THEN inds_to_include[1]
                       ELSE df_index
    IN  IF inds_to_exclude # Unset /\ inds_to_exclude[1] # {}
        THEN all_indices \ inds_to_exclude[1]
        ELSE all_indices

Percentages == {<<0, 1>>, <<1, 4>>, <<1, 2>>, <<1, 1>>, <<3, 2>>}

Includes == {Unset, Holding({0, 1}), Holding({1, 2, MaxIndex + 1})}

Excludes == {Unset, Holding({}), Holding({1}), Holding({0, 3})}

\* lines 85-92
InitIndices ==
    /\ \E n \in 0..MaxIndex, include \in Includes, exclude \in Excludes,
          percentages \in SeqsUpTo(Percentages, MaxPercentages) :
          calls = [df_index |-> 0..(n - 1),
                   percentages |-> percentages,
                   inds_to_include |-> include,
                   inds_to_exclude |-> exclude,
                   all_indices |-> initial_indices(0..(n - 1), include, exclude),
                   i |-> 1,
                   result_indices |-> <<>>]
    /\ pc = "loop"
    /\ heap = <<>>
    /\ target = DataFrame(<<>>, Headers)
    /\ spec = EmptySpec
    /\ ret = 0
    /\ raised = FALSE
    /\ inst = NoInstance
    /\ build = NoBuild

\* lines 94-105, a turn of the loop that selects
SelectIndices ==
    /\ pc = "loop"
    /\ calls.i <= Len(calls.percentages)
    /\ LET num_random == num_random_of(calls.all_indices, calls.percentages[calls.i])
       IN  /\ Cardinality(calls.all_indices) >= num_random
           /\ \E selected_indices \in choice(calls.all_indices, num_random) :
                 calls' = [calls EXCEPT
                              !.result_indices = Append(@, selected_indices),
                              !.all_indices = remaining_indices(@, selected_indices),
                              !.i = @ + 1]
    /\ UNCHANGED <<heap, target, spec, ret, raised, pc, inst, build>>

\* lines 94-99
RaiseNotEnough ==
    /\ pc = "loop"
    /\ calls.i <= Len(calls.percentages)
    /\ Cardinality(calls.all_indices) <
           num_random_of(calls.all_indices, calls.percentages[calls.i])
    /\ raised' = TRUE
    /\ pc' = "raised"
    /\ UNCHANGED <<heap, target, spec, ret, inst, build, calls>>

\* line 107
ReturnIndices ==
    /\ pc = "loop"
    /\ calls.i > Len(calls.percentages)
    /\ pc' = "returned"
    /\ UNCHANGED <<heap, target, spec, ret, raised, inst, build, calls>>

NextIndices == SelectIndices \/ RaiseNotEnough \/ ReturnIndices

SpecIndices == InitIndices /\ [][NextIndices]_vars

\* the included indices, or the table's, without the excluded ones
Selectable ==
    (IF calls.inds_to_include = Unset THEN calls.df_index
     ELSE calls.inds_to_include[1])
    \ (IF calls.inds_to_exclude = Unset THEN {} ELSE calls.inds_to_exclude[1])

RECURSIVE SelectedBefore(_)
\* the number of indices in the lists before the k-th
SelectedBefore(k) ==
    IF k <= 1 THEN 0
    ELSE SelectedBefore(k - 1) + Len(calls.result_indices[k - 1])

\* the number of indices not yet selected when the k-th list is drawn
Unselected(k) == Cardinality(Selectable) - SelectedBefore(k)

\* floor(p * m) of a fraction p >= 0
FloorOfProduct(p, m) == CHOOSE q \in 0..(m * p[1]) : q * p[2] <= m * p[1] /\ m * p[1] < (q + 1) * p[2]

\* max(1, floor(p_k * number of indices still unselected))
Due(k) ==
    LET f == FloorOfProduct(calls.percentages[k], Unselected(k))
    IN  IF f >= 1 THEN f ELSE 1

====
